---- MODULE Spec2Model ----
(***************************************************************************)
(* Savishkar event importer (scripts/importEvents) and the event store it  *)
(* writes.  Text is modelled as a sequence of one-character strings so     *)
(* that trimming, case folding, substring tests and digit extraction are   *)
(* computed the way the JavaScript source computes them.                   *)
(***************************************************************************)
EXTENDS Integers, Sequences, FiniteSets, TLC

(***************************************************************************)
(* JavaScript string primitives used by the importer.                      *)
(***************************************************************************)

\* the value of a missing object property (row[key] for an absent header)
Undefined == <<"undefined-value">>

\* String.prototype.trim strips these from both ends
WhiteSpace == {" ", "\t", "\n", "\r"}

UpperLetters ==
    <<"A","B","C","D","E","F","G","H","I","J","K","L","M",
      "N","O","P","Q","R","S","T","U","V","W","X","Y","Z">>

LowerLetters ==
    <<"a","b","c","d","e","f","g","h","i","j","k","l","m",
      "n","o","p","q","r","s","t","u","v","w","x","y","z">>

Digits == <<"0","1","2","3","4","5","6","7","8","9">>

IsDigit(c) == \E d \in 1..10 : Digits[d] = c

DigitVal(c) == (CHOOSE d \in 1..10 : Digits[d] = c) - 1

LowerChar(c) ==
    IF \E k \in 1..26 : UpperLetters[k] = c
    THEN LowerLetters[CHOOSE k \in 1..26 : UpperLetters[k] = c]
    ELSE c

UpperChar(c) ==
    IF \E k \in 1..26 : LowerLetters[k] = c
    THEN UpperLetters[CHOOSE k \in 1..26 : LowerLetters[k] = c]
    ELSE c

toLowerCase(s) == [k \in 1..Len(s) |-> LowerChar(s[k])]

toUpperCase(s) == [k \in 1..Len(s) |-> UpperChar(s[k])]

trimStart(s) ==
    IF \A k \in 1..Len(s) : s[k] \in WhiteSpace THEN <<>>
    ELSE SubSeq(s, CHOOSE k \in 1..Len(s) :
                       s[k] \notin WhiteSpace /\ \A m \in 1..(k - 1) : s[m] \in WhiteSpace,
                Len(s))

trimEnd(s) ==
    IF \A k \in 1..Len(s) : s[k] \in WhiteSpace THEN <<>>
    ELSE SubSeq(s, 1, CHOOSE k \in 1..Len(s) :
                          s[k] \notin WhiteSpace /\ \A m \in (k + 1)..Len(s) : s[m] \in WhiteSpace)

trim(s) == trimEnd(trimStart(s))

\* s.includes(sub)
includes(s, sub) ==
    \E k \in 0..(Len(s) - Len(sub)) : SubSeq(s, k + 1, k + Len(sub)) = sub

\* the pieces of s between the positions in seps (a set of positions of s),
\* in order: always at least one piece
piecesBetween(s, seps) ==
    LET nth(n) == CHOOSE k \in seps : Cardinality({m \in seps : m < k}) = n - 1
        from(n) == IF n = 1 THEN 1 ELSE nth(n - 1) + 1
        to(n)   == IF n = Cardinality(seps) + 1 THEN Len(s) ELSE nth(n) - 1
    IN  [n \in 1..(Cardinality(seps) + 1) |-> SubSeq(s, from(n), to(n))]

\* s.split(c) for a one-character separator
split(s, c) == piecesBetween(s, {k \in 1..Len(s) : s[k] = c})

\* !x for a string-or-undefined value
Falsy(x) == x = Undefined \/ x = <<>>

\* a || b
OrElse(a, b) == IF Falsy(a) THEN b ELSE a

\* row[key] on a plain object
Prop(row, key) == IF key \in DOMAIN row THEN row[key] ELSE Undefined

\* the value of a run of decimal digits (parseInt of /\d+/)
RECURSIVE parseIntDigits(_)
parseIntDigits(ds) ==
    IF ds = <<>> THEN 0
    ELSE 10 * parseIntDigits(SubSeq(ds, 1, Len(ds) - 1)) + DigitVal(ds[Len(ds)])

\* the longest run of digits of s that starts at position k
RECURSIVE digitRunAt(_, _)
digitRunAt(s, k) ==
    IF k <= Len(s) /\ IsDigit(s[k]) THEN <<s[k]>> \o digitRunAt(s, k + 1) ELSE <<>>

\* str.match(/(\d+)/): the first run of digits, or <<>> when there is none
firstDigitRun(s) ==
    IF \E k \in 1..Len(s) : IsDigit(s[k])
    THEN digitRunAt(s, CHOOSE k \in 1..Len(s) :
                          IsDigit(s[k]) /\ \A m \in 1..(k - 1) : ~IsDigit(s[m]))
    ELSE <<>>

(***************************************************************************)
(* parseCSV                                                                *)
(***************************************************************************)

\* the quote-toggling scan of one line into trimmed positional values: a
\* comma separates when an even number of quotes precedes it, and the quote
\* characters themselves are dropped
scanLine(line) ==
    LET quotesBefore(k) == Cardinality({m \in 1..(k - 1) : line[m] = "\""})
        seps   == {k \in 1..Len(line) : line[k] = "," /\ quotesBefore(k) % 2 = 0}
        pieces == piecesBetween(line, seps)
        NotQuote(c) == c # "\""
    IN  [n \in 1..Len(pieces) |-> trim(SelectSeq(pieces[n], NotQuote))]

\* headers.forEach((header, index) => row[header] = values[index] || '')
\* a repeated header keeps the value of its last column
zipRow(headers, values) ==
    [h \in {headers[k] : k \in 1..Len(headers)} |->
        LET last == CHOOSE k \in 1..Len(headers) :
                        headers[k] = h /\ \A m \in (k + 1)..Len(headers) : headers[m] # h
        IN  IF last <= Len(values) THEN values[last] ELSE <<>>]

RECURSIVE csvRows(_, _, _)
csvRows(lines, headers, k) ==
    IF k > Len(lines) THEN <<>>
    ELSE IF trim(lines[k]) = <<>> THEN csvRows(lines, headers, k + 1)
    ELSE <<zipRow(headers, scanLine(lines[k]))>>
         \o csvRows(lines, headers, k + 1)

parseCSV(content) ==
    LET lines   == split(content, "\n")
        hcells  == split(lines[1], ",")
        headers == [k \in 1..Len(hcells) |-> trim(hcells[k])]
    IN  csvRows(lines, headers, 2)

K_name ==
    <<"E","v","e","n","t"," ","n","a","m","e">>

K_category ==
    <<"E","v","e","n","t"," ","C","a","t","e","g","o","r","y">>

K_department ==
    <<"E","v","e","n","t"," ","d","e","p","a","r","t","m","e","n","t"," ">>

K_teamSize ==
    <<"T","e","a","m"," ","s","i","z","e"," ","(","m","i","n","i","m","u","m"," "," ","&"," ",
    "m","a","x","i","m","u","m",")","\n","I","f"," ","t","e","a","m"," ","e","v","e","n","t",
    " ","\n","E","x","a","m","p","l","e"," ",":"," "," ","M","i","n","i","m","u","m"," ",":",
    " ","2","\n"," "," "," "," "," "," "," "," "," "," "," "," "," "," "," "," "," "," "," ",
    "M","a","x","i","m","u","m"," ",":"," ","4","\n","I","f"," ","i","n","d","i","v","i","d",
    "u","a","l"," ","t","y","p","e"," ",":"," ","1","\n">>

K_prizes ==
    <<"P","r","i","z","e","s","\n","E","x","a","m","p","l","e"," ",":"," ","1","s","t"," ",":",
    " ","1","5","0","0","r","s"," ","\n"," "," "," "," "," "," "," "," "," "," "," "," "," ",
    " "," "," "," "," ","2","n","d"," ",":"," ","1","0","0","0","r","s"," ">>

K_date ==
    <<"E","v","e","n","t"," ","d","a","t","e"," ">>

K_fee ==
    <<"R","e","g","i","s","t","r","a","t","i","o","n"," ","f","e","e">>

K_maxSlots ==
    <<"M","a","x","i","m","u","m"," ","t","e","a","m"," ","s","l","o","t","s"," ">>

K_coordName ==
    <<"E","v","e","n","t"," ","C","o","o","r","d","i","n","a","t","o","r","s"," "," ","N","a",
    "m","e"," ">>

K_coordPhone ==
    <<"E","v","e","n","t"," ","C","o","o","r","d","i","n","a","t","o","r","s"," ","c","o","n",
    "t","a","c","t"," ","n","u","m","b","e","r">>

K_coordEmail ==
    <<"E","v","e","n","t"," ","C","o","o","r","d","i","n","a","t","o","r","s"," ","E","-","m",
    "a","i","l">>

K_fullDesc ==
    <<"F","u","l","l"," ","d","e","s","c","r","i","p","t","i","o","n","\n","D","e","s","c","r",
    "i","b","e"," ","y","o","u"," ","e","v","e","n","t"," ","i","n"," ","d","e","t","a","i","l",
    " ","a","r","o","u","n","d"," ","a"," ","p","a","r","a","g","r","a","p","h",".">>

K_shortDesc ==
    <<"S","h","o","r","t"," ","d","e","s","c","r","i","p","t","i","o","n"," ","\n","e","x","a",
    "m","p","l","e"," ",":"," "," ","h","a","c","k","a","t","h","o","n",","," ","s","o","l","o",
    " ","d","a","n","c","e",","," ","s","i","n","g","i","n","g",","," ","b","g","m","i",",",
    " ">>

K_time ==
    <<"E","v","e","n","t"," ","s","t","a","r","t"," ","t","i","m","e">>

K_venue ==
    <<"V","e","n","u","e","\n","E","x","a","m","p","l","e",":"," ","c","l","a","s","s","r","o",
    "o","m"," ","n","u","m","b","e","r",","," ","q","u","a","d","r","a","n","g","l","e"," ","e",
    "t","c","\n">>

S_eventName ==
    <<"e","v","e","n","t"," ","n","a","m","e">>

S_minimum ==
    <<"m","i","n","i","m","u","m">>

S_maximum ==
    <<"m","a","x","i","m","u","m">>

S_1st ==
    <<"1","s","t">>

S_2nd ==
    <<"2","n","d">>

S_3rd ==
    <<"3","r","d">>

S_and ==
    <<"a","n","d">>

S_technical ==
    <<"t","e","c","h","n","i","c","a","l">>

S_non ==
    <<"n","o","n">>

S_cultural ==
    <<"c","u","l","t","u","r","a","l">>

Technical ==
    <<"T","e","c","h","n","i","c","a","l">>

NonTechnical ==
    <<"N","o","n","-","T","e","c","h","n","i","c","a","l">>

Cultural ==
    <<"C","u","l","t","u","r","a","l">>

AIML ==
    <<"A","I","M","L">>

CSE ==
    <<"C","S","E">>

ECE ==
    <<"E","C","E">>

Mech ==
    <<"M","e","c","h">>

Civil ==
    <<"C","i","v","i","l">>

MBA ==
    <<"M","B","A">>

Common ==
    <<"C","o","m","m","o","n">>

S_MECH ==
    <<"M","E","C","H">>

S_MECHANICAL ==
    <<"M","E","C","H","A","N","I","C","A","L">>

S_CIVIL ==
    <<"C","I","V","I","L">>

S_COMMON ==
    <<"C","O","M","M","O","N">>

S_EventDescription ==
    <<"E","v","e","n","t"," ","d","e","s","c","r","i","p","t","i","o","n">>

S_10AM ==
    <<"1","0",":","0","0"," ","A","M">>

S_TBA ==
    <<"T","B","A">>

(***************************************************************************)
(* Field parsers                                                           *)
(***************************************************************************)

\* the capture of /label\s*:?\s*(\d+)/ anchored at position k of s (s already
\* case-folded), or <<>> when the pattern does not match there
RECURSIVE skipWhile(_, _, _)
skipWhile(s, k, set) ==
    IF k <= Len(s) /\ s[k] \in set THEN skipWhile(s, k + 1, set) ELSE k

labelNumberAt(s, label, k, symbols) ==
    IF k + Len(label) - 1 > Len(s) \/ SubSeq(s, k, k + Len(label) - 1) # label
    THEN <<>>
    ELSE LET a == skipWhile(s, k + Len(label), WhiteSpace)
             b == IF a <= Len(s) /\ s[a] = ":" THEN a + 1 ELSE a
             c == skipWhile(s, b, WhiteSpace)
             d == skipWhile(s, c, symbols)
             e == skipWhile(s, d, WhiteSpace)
         IN  digitRunAt(s, e)

\* the capture of the leftmost match of /label\s*:?\s*[symbols]*\s*(\d+)/i in
\* str, or <<>> when there is no match
labelNumber(str, label, symbols) ==
    LET s == toLowerCase(str)
    IN  IF \E k \in 1..Len(s) : labelNumberAt(s, label, k, symbols) # <<>>
        THEN labelNumberAt(s, label,
                 CHOOSE k \in 1..Len(s) :
                     /\ labelNumberAt(s, label, k, symbols) # <<>>
                     /\ \A m \in 1..(k - 1) : labelNumberAt(s, label, m, symbols) = <<>>,
                 symbols)
        ELSE <<>>

\* a bare number taken as the maximum only
parseTeamSize_bareSetsMax(teamSizeStr) ==
    IF Falsy(teamSizeStr) THEN [min |-> 1, max |-> 1]
    ELSE
    LET str      == toLowerCase(teamSizeStr)
        minMatch == labelNumber(str, S_minimum, {})
        maxMatch == labelNumber(str, S_maximum, {})
        numMatch == firstDigitRun(str)
    IN  [min |-> IF minMatch # <<>> THEN parseIntDigits(minMatch) ELSE 1,
         max |-> IF maxMatch # <<>> THEN parseIntDigits(maxMatch)
                 ELSE IF minMatch = <<>> /\ numMatch # <<>> THEN parseIntDigits(numMatch)
                 ELSE 1]

parseTeamSize(teamSizeStr) ==
    IF Falsy(teamSizeStr) THEN [min |-> 1, max |-> 1]
    ELSE
    LET str      == toLowerCase(teamSizeStr)
        minMatch == labelNumber(str, S_minimum, {})
        maxMatch == labelNumber(str, S_maximum, {})
        numMatch == firstDigitRun(str)
        min1     == IF minMatch # <<>> THEN parseIntDigits(minMatch) ELSE 1
        onlyMax  == maxMatch = <<>> /\ includes(str, S_maximum)
                       /\ ~includes(str, S_minimum) /\ numMatch # <<>>
        max2     == IF maxMatch # <<>> THEN parseIntDigits(maxMatch)
                    ELSE IF onlyMax THEN parseIntDigits(numMatch) ELSE 1
        min2     == IF onlyMax THEN 1 ELSE min1
        bare     == minMatch = <<>> /\ maxMatch = <<>> /\ numMatch # <<>>
    IN  IF bare
        THEN [min |-> parseIntDigits(numMatch), max |-> parseIntDigits(numMatch)]
        ELSE [min |-> min2, max |-> max2]

\* [₹rs] under the i flag
PrizeSymbols == {"₹", "r", "s"}

Rupee(ds) == <<"₹">> \o ds

\* every tier stored, an unmatched one as the empty string
parsePrizes_unmatchedEmpty(prizeStr) ==
    IF Falsy(prizeStr) THEN <<>>
    ELSE
    LET firstMatch  == labelNumber(prizeStr, S_1st, PrizeSymbols)
        secondMatch == labelNumber(prizeStr, S_2nd, PrizeSymbols)
        thirdMatch  == labelNumber(prizeStr, S_3rd, PrizeSymbols)
        money(ds)   == IF ds = <<>> THEN <<>> ELSE Rupee(ds)
    IN  [t \in {"first", "second", "third"} |->
            CASE t = "first"  -> money(firstMatch)
              [] t = "second" -> money(secondMatch)
              [] t = "third"  -> money(thirdMatch)]

parsePrizes(prizeStr) ==
    IF Falsy(prizeStr) THEN <<>>
    ELSE
    LET firstMatch  == labelNumber(prizeStr, S_1st, PrizeSymbols)
        secondMatch == labelNumber(prizeStr, S_2nd, PrizeSymbols)
        thirdMatch  == labelNumber(prizeStr, S_3rd, PrizeSymbols)
        tiers == (IF firstMatch  # <<>> THEN {"first"}  ELSE {}) \cup
                 (IF secondMatch # <<>> THEN {"second"} ELSE {}) \cup
                 (IF thirdMatch  # <<>> THEN {"third"}  ELSE {})
    IN  [t \in tiers |-> CASE t = "first"  -> Rupee(firstMatch)
                           [] t = "second" -> Rupee(secondMatch)
                           [] t = "third"  -> Rupee(thirdMatch)]

\* ---- dates: a Date is a calendar day, or InvalidDate (getTime() is NaN) ----

NaN == -999999

\* x - n in floating point: NaN stays NaN
Minus(x, n) == IF x = NaN THEN NaN ELSE x - n

InvalidDate == [valid |-> FALSE]

\* a date string outside the ISO forms and carrying digits is parsed by the
\* engine's own fallback rules, which ECMAScript leaves to the implementation
EngineDefinedDate == [valid |-> FALSE, engine |-> TRUE]

CalendarDate(y, m, d) == [valid |-> TRUE, year |-> y, month |-> m, day |-> d]

IsLeap(y) == (y % 4 = 0 /\ y % 100 # 0) \/ y % 400 = 0

DaysInMonth(y, m) ==
    IF m = 2 THEN (IF IsLeap(y) THEN 29 ELSE 28)
    ELSE IF m \in {4, 6, 9, 11} THEN 30 ELSE 31

\* day overflow and underflow carried into the month and year
RECURSIVE carryDays(_, _, _)
carryDays(y, m, d) ==
    IF d > DaysInMonth(y, m)
    THEN carryDays(IF m = 12 THEN y + 1 ELSE y, IF m = 12 THEN 1 ELSE m + 1,
                   d - DaysInMonth(y, m))
    ELSE IF d < 1
    THEN LET py == IF m = 1 THEN y - 1 ELSE y
             pm == IF m = 1 THEN 12 ELSE m - 1
         IN  carryDays(py, pm, d + DaysInMonth(py, pm))
    ELSE CalendarDate(y, m, d)

\* new Date(year, monthIndex, day)
MakeDate(year, monthIndex, day) ==
    IF year = NaN \/ monthIndex = NaN \/ day = NaN THEN InvalidDate
    ELSE LET fullYear == IF year >= 0 /\ year <= 99 THEN 1900 + year ELSE year
             months   == fullYear * 12 + monthIndex
         IN  carryDays(months \div 12, (months % 12) + 1, day)

\* parseInt(s): leading white space, an optional sign, then decimal digits
\* (hexadecimal "0x" prefixes are not modelled)
parseInt(s) ==
    LET t    == trimStart(s)
        neg  == t # <<>> /\ Head(t) = "-"
        body == IF t # <<>> /\ Head(t) \in {"-", "+"} THEN Tail(t) ELSE t
        run  == digitRunAt(body, 1)
    IN  IF run = <<>> THEN NaN
        ELSE IF neg THEN 0 - parseIntDigits(run) ELSE parseIntDigits(run)

AllDigits(s) == s # <<>> /\ \A k \in 1..Len(s) : IsDigit(s[k])

\* new Date(str) for a string: the ISO date-only forms are specified; a string
\* without any digit is not a date in any engine
DateFromString(str) ==
    LET p == split(str, "-")
        y == parseIntDigits(p[1])
    IN  IF \A k \in 1..Len(str) : ~IsDigit(str[k]) THEN InvalidDate
        ELSE IF ~(\A k \in 1..Len(p) : AllDigits(p[k])) \/ Len(p[1]) # 4 \/ Len(p) > 3
             THEN EngineDefinedDate
        ELSE IF Len(p) >= 2 /\ (Len(p[2]) # 2 \/ parseIntDigits(p[2]) \notin 1..12)
             THEN InvalidDate
        ELSE IF Len(p) = 3 /\ (Len(p[3]) # 2 \/ parseIntDigits(p[3]) \notin 1..31)
             THEN InvalidDate
        ELSE IF Len(p) = 3 /\ parseIntDigits(p[3]) > DaysInMonth(y, parseIntDigits(p[2]))
             THEN EngineDefinedDate
        ELSE CalendarDate(y, IF Len(p) >= 2 THEN parseIntDigits(p[2]) ELSE 1,
                             IF Len(p) = 3 THEN parseIntDigits(p[3]) ELSE 1)

\* new Date('2025-11-12')
FallbackDate == CalendarDate(2025, 11, 12)

parseDate(dateStr) ==
    IF Falsy(dateStr) THEN FallbackDate
    ELSE
    LET str   == trim(dateStr)
        parts == split(str, "/")
    IN  IF Len(parts) = 3
        THEN MakeDate(parseInt(parts[3]), Minus(parseInt(parts[1]), 1), parseInt(parts[2]))
        ELSE DateFromString(str)

parseRegistrationFee(feeStr) ==
    IF Falsy(feeStr) THEN 0
    ELSE IF firstDigitRun(feeStr) # <<>> THEN parseIntDigits(firstDigitRun(feeStr)) ELSE 0

parseMaxParticipants(maxStr) ==
    IF Falsy(maxStr) THEN 100
    ELSE IF firstDigitRun(maxStr) # <<>> THEN parseIntDigits(firstDigitRun(maxStr)) ELSE 100

\* the test for 'cultural' made before the test for 'non'
normalizeCategory_culturalFirst(category) ==
    IF Falsy(category) THEN Technical
    ELSE
    LET cat == toLowerCase(trim(category))
    IN  IF includes(cat, S_technical) /\ ~includes(cat, S_non) THEN Technical
        ELSE IF includes(cat, S_cultural) THEN Cultural
        ELSE IF includes(cat, S_non) THEN NonTechnical
        ELSE Technical

normalizeCategory(category) ==
    IF Falsy(category) THEN Technical
    ELSE
    LET cat == toLowerCase(trim(category))
    IN  IF includes(cat, S_technical) /\ ~includes(cat, S_non) THEN Technical
        ELSE IF includes(cat, S_non) THEN NonTechnical
        ELSE IF includes(cat, S_cultural) THEN Cultural
        ELSE Technical

deptMap ==
    { <<AIML, AIML>>, <<CSE, CSE>>, <<ECE, ECE>>, <<S_MECH, Mech>>,
      <<S_MECHANICAL, Mech>>, <<S_CIVIL, Civil>>, <<MBA, MBA>>, <<S_COMMON, Common>> }

\* the field looked up without being trimmed
normalizeDepartment_untrimmed(dept) ==
    IF Falsy(dept) THEN Common
    ELSE
    LET deptStr == toUpperCase(dept)
    IN  IF \E e \in deptMap : e[1] = deptStr
        THEN (CHOOSE e \in deptMap : e[1] = deptStr)[2]
        ELSE Common

normalizeDepartment(dept) ==
    IF Falsy(dept) THEN Common
    ELSE
    LET deptStr == toUpperCase(trim(dept))
    IN  IF \E e \in deptMap : e[1] = deptStr
        THEN (CHOOSE e \in deptMap : e[1] = deptStr)[2]
        ELSE Common

\* str.split(/[,&;]|and/i) when andToo, str.split(/[,&;]/) otherwise
RECURSIVE splitList(_, _, _, _)
splitList(s, k, cur, andToo) ==
    IF k > Len(s) THEN <<cur>>
    ELSE IF s[k] \in {",", "&", ";"}
         THEN <<cur>> \o splitList(s, k + 1, <<>>, andToo)
    ELSE IF andToo /\ k + 2 <= Len(s) /\ toLowerCase(SubSeq(s, k, k + 2)) = S_and
         THEN <<cur>> \o splitList(s, k + 3, <<>>, andToo)
    ELSE splitList(s, k + 1, Append(cur, s[k]), andToo)

\* .map(x => x.trim()).filter(x => x)
RECURSIVE trimmedNonEmpty(_)
trimmedNonEmpty(list) ==
    IF list = <<>> THEN <<>>
    ELSE IF trim(Head(list)) = <<>> THEN trimmedNonEmpty(Tail(list))
    ELSE <<trim(Head(list))>> \o trimmedNonEmpty(Tail(list))

\* phones and emails aligned before the empty entries are dropped
parseCoordinators_keepsEmptyEntries(nameStr, phoneStr, emailStr) ==
    IF Falsy(nameStr) THEN <<>>
    ELSE
    LET names  == trimmedNonEmpty(splitList(nameStr, 1, <<>>, TRUE))
        untrimmed(list) == [k \in 1..Len(list) |-> trim(list[k])]
        phones == IF Falsy(phoneStr) THEN <<>>
                  ELSE untrimmed(splitList(phoneStr, 1, <<>>, FALSE))
        emails == IF Falsy(emailStr) THEN <<>>
                  ELSE untrimmed(splitList(emailStr, 1, <<>>, FALSE))
    IN  [k \in 1..Len(names) |->
            [name  |-> names[k],
             phone |-> IF k <= Len(phones) THEN phones[k] ELSE <<>>,
             email |-> IF k <= Len(emails) THEN emails[k] ELSE <<>>,
             role  |-> IF k = 1 THEN "head" ELSE "coordinator"]]

parseCoordinators(nameStr, phoneStr, emailStr) ==
    IF Falsy(nameStr) THEN <<>>
    ELSE
    LET names  == trimmedNonEmpty(splitList(nameStr, 1, <<>>, TRUE))
        phones == IF Falsy(phoneStr) THEN <<>>
                  ELSE trimmedNonEmpty(splitList(phoneStr, 1, <<>>, FALSE))
        emails == IF Falsy(emailStr) THEN <<>>
                  ELSE trimmedNonEmpty(splitList(emailStr, 1, <<>>, FALSE))
    IN  [k \in 1..Len(names) |->
            [name  |-> names[k],
             phone |-> IF k <= Len(phones) THEN phones[k] ELSE <<>>,
             email |-> IF k <= Len(emails) THEN emails[k] ELSE <<>>,
             role  |-> IF k = 1 THEN "head" ELSE "coordinator"]]

IsSlugChar(c) == IsDigit(c) \/ \E k \in 1..26 : LowerLetters[k] = c

\* .replace(/[^a-z0-9]+/g, '-')
RECURSIVE hyphenate(_, _)
hyphenate(s, k) ==
    IF k > Len(s) THEN <<>>
    ELSE IF IsSlugChar(s[k]) THEN <<s[k]>> \o hyphenate(s, k + 1)
    ELSE IF k > 1 /\ ~IsSlugChar(s[k - 1]) THEN hyphenate(s, k + 1)
    ELSE <<"-">> \o hyphenate(s, k + 1)

\* .replace(/(^-|-$)/g, '')
stripEdgeHyphens(s) ==
    LET a == IF s # <<>> /\ Head(s) = "-" THEN Tail(s) ELSE s
    IN  IF a # <<>> /\ a[Len(a)] = "-" THEN SubSeq(a, 1, Len(a) - 1) ELSE a

\* the slug with the hyphens at its ends left in place
slugOf_keepsEdgeHyphens(name) == hyphenate(toLowerCase(name), 1)

slugOf(name) == stripEdgeHyphens(hyphenate(toLowerCase(name), 1))

dummyImages(category) ==
    CASE category = Technical    -> "https://images.unsplash.com/photo-1518770660439-4636190af475?w=800"
      [] category = NonTechnical -> "https://images.unsplash.com/photo-1511578314322-379afb476865?w=800"
      [] category = Cultural     -> "https://images.unsplash.com/photo-1514320291840-2e0a9bf2a9ae?w=800"
      [] OTHER                   -> "https://images.unsplash.com/photo-1540575467063-178a50c2df87?w=800"

(***************************************************************************)
(* importEvents: one row to one event record (the body of the row loop)    *)
(***************************************************************************)

\* row['Event name']?.trim()
eventNameOf(row) ==
    IF Prop(row, K_name) = Undefined THEN Undefined ELSE trim(Prop(row, K_name))

\* the header test done without lowering the name
skipsRow_caseSensitive(row) ==
    \/ Falsy(eventNameOf(row))
    \/ includes(eventNameOf(row), S_eventName)

\* if (!eventName || eventName.toLowerCase().includes('event name')) continue;
skipsRow(row) ==
    \/ Falsy(eventNameOf(row))
    \/ includes(toLowerCase(eventNameOf(row)), S_eventName)

eventOf(row) ==
    LET eventName  == eventNameOf(row)
        category   == normalizeCategory(Prop(row, K_category))
        department == normalizeDepartment(Prop(row, K_department))
    IN  [ name             |-> eventName,
          description      |-> OrElse(Prop(row, K_fullDesc),
                                      OrElse(Prop(row, K_shortDesc), S_EventDescription)),
          shortDescription |-> OrElse(Prop(row, K_shortDesc), eventName),
          category         |-> category,
          department       |-> department,
          image            |-> dummyImages(category),
          date             |-> parseDate(Prop(row, K_date)),
          time             |-> OrElse(Prop(row, K_time), S_10AM),
          venue            |-> OrElse(Prop(row, K_venue), S_TBA),
          registrationFee  |-> parseRegistrationFee(Prop(row, K_fee)),
          maxParticipants  |-> parseMaxParticipants(Prop(row, K_maxSlots)),
          teamSize         |-> parseTeamSize(Prop(row, K_teamSize)),
          prizes           |-> parsePrizes(Prop(row, K_prizes)),
          coordinators     |-> parseCoordinators(Prop(row, K_coordName),
                                                 Prop(row, K_coordPhone),
                                                 Prop(row, K_coordEmail)),
          rules            |-> <<>>,
          eligibility      |-> <<"Open to all students">>,
          isActive         |-> TRUE,
          status           |-> "upcoming",
          onlineRegistrationOpen |-> TRUE,
          tags             |-> <<toLowerCase(category), toLowerCase(department)>>,
          slug             |-> slugOf(eventName) ]

\* a list in place of the Map: every kept row adds an entry
mapSet_appends(m, event) == Append(m, event)

\* the Map keeps the first value set under a key
mapSet_keepFirst(m, event) ==
    IF \E k \in 1..Len(m) : m[k].name = event.name THEN m ELSE Append(m, event)

\* uniqueEvents.set(eventName, event) on a Map kept in insertion order: a key
\* already present keeps its position and takes the new value
mapSet(m, event) ==
    IF \E k \in 1..Len(m) : m[k].name = event.name
    THEN [k \in 1..Len(m) |-> IF m[k].name = event.name THEN event ELSE m[k]]
    ELSE Append(m, event)

(***************************************************************************)
(* The event collection.  Documents are keyed by name; a document is a     *)
(* function from field names to values.                                    *)
(***************************************************************************)

\* an upsert that, finding no document, inserts the filter alone
findOneAndUpdate_insertStub(coll, event) ==
    LET n == event.name
        fields == DOMAIN event
    IN  IF n \in DOMAIN coll
        THEN [coll EXCEPT ![n] =
                 [f \in (DOMAIN coll[n]) \cup fields |->
                     IF f \in fields THEN event[f] ELSE coll[n][f]]]
        ELSE [x \in (DOMAIN coll) \cup {n} |->
                 IF x = n THEN [f \in {"name"} |-> n] ELSE coll[x]]

\* an upsert that replaces the matched document by the update
findOneAndUpdate_replace(coll, event) ==
    [x \in (DOMAIN coll) \cup {event.name} |->
        IF x = event.name THEN event ELSE coll[x]]

\* Event.findOneAndUpdate({ name: event.name }, event, { upsert: true, new: true })
\* The update document carries no operator, so it is applied as a $set of its
\* top-level fields: a matched document keeps every field the update does not
\* name; with no match the update's fields are inserted as a new document.
findOneAndUpdate(coll, event) ==
    LET n == event.name
        fields == DOMAIN event
    IN  IF n \in DOMAIN coll
        THEN [coll EXCEPT ![n] =
                 [f \in (DOMAIN coll[n]) \cup fields |->
                     IF f \in fields THEN event[f] ELSE coll[n][f]]]
        ELSE [x \in (DOMAIN coll) \cup {n} |-> IF x = n THEN event ELSE coll[x]]

\* a breakdown that lists each department once
deptCountsOf_distinct(events) ==
    [d \in {events[k].department : k \in 1..Len(events)} |-> 1]

\* the department breakdown printed at the end of the run
deptCountsOf(events) ==
    [d \in {events[k].department : k \in 1..Len(events)} |->
        Cardinality({k \in 1..Len(events) : events[k].department = d})]

S_Timestamp ==
    <<"T","i","m","e","s","t","a","m","p">>

S_RoboRace ==
    <<"R","o","b","o"," ","R","a","c","e">>

S_Quiz ==
    <<"Q","u","i","z">>

S_HeaderLike ==
    <<"E","v","e","n","t"," ","N","a","m","e"," ","(","e","x","a","m","p","l","e",")">>

S_Lab1 ==
    <<"L","a","b"," ","1">>

S_Quadrangle ==
    <<"Q","u","a","d","r","a","n","g","l","e">>

RowRobo2 ==
    [ ts         |-> <<"t","1">>,
      name       |-> <<"R","o","b","o"," ","R","a","c","e">>,
      category   |-> <<"T","e","c","h","n","i","c","a","l">>,
      department |-> <<"M","e","c","h">>,
      date       |-> <<"3","/","1","5","/","2","0","2","5">>,
      fee        |-> <<"0">>,
      slots      |-> <<"5","0">>,
      time       |-> <<"9"," ","A","M">>,
      coordName  |-> <<"A","s","h","a"," ","a","n","d"," ","R","a","v","i">>,
      coordPhone |-> <<"9","8","0","0","1",","," ","9","8","0","0","2">>,
      coordEmail |-> <<"a","@","x",".","i","n">>,
      teamSize   |-> <<"2">>,
      prizes     |-> <<"1","s","t"," ",":"," ","1","5","0","0","r","s">>,
      venue      |-> <<"L","a","b"," ","1">>,
      fullDesc   |-> <<>>,
      shortDesc  |-> <<"B","o","t","s">> ]

RowRobo4 ==
    [ ts         |-> <<"t","2">>,
      name       |-> <<"R","o","b","o"," ","R","a","c","e">>,
      category   |-> <<"N","o","n"," ","T","e","c","h","n","i","c","a","l">>,
      department |-> <<"E","C","E">>,
      date       |-> <<"T","B","D">>,
      fee        |-> <<"1","0","0">>,
      slots      |-> <<>>,
      time       |-> <<>>,
      coordName  |-> <<>>,
      coordPhone |-> <<>>,
      coordEmail |-> <<>>,
      teamSize   |-> <<"4">>,
      prizes     |-> <<>>,
      venue      |-> <<"Q","u","a","d","r","a","n","g","l","e">>,
      fullDesc   |-> <<>>,
      shortDesc  |-> <<>> ]

RowNoName ==
    [ ts         |-> <<"t","3">>,
      name       |-> <<>>,
      category   |-> <<"C","u","l","t","u","r","a","l">>,
      department |-> <<>>,
      date       |-> <<>>,
      fee        |-> <<"2","0">>,
      slots      |-> <<>>,
      time       |-> <<>>,
      coordName  |-> <<>>,
      coordPhone |-> <<>>,
      coordEmail |-> <<>>,
      teamSize   |-> <<"3">>,
      prizes     |-> <<>>,
      venue      |-> <<"H","a","l","l">>,
      fullDesc   |-> <<>>,
      shortDesc  |-> <<>> ]

RowHeaderLike ==
    [ ts         |-> <<"t","4">>,
      name       |-> <<"E","v","e","n","t"," ","N","a","m","e"," ","(","e","x","a","m","p","l","e",")">>,
      category   |-> <<"T","e","c","h","n","i","c","a","l">>,
      department |-> <<>>,
      date       |-> <<>>,
      fee        |-> <<"5","0">>,
      slots      |-> <<>>,
      time       |-> <<>>,
      coordName  |-> <<>>,
      coordPhone |-> <<>>,
      coordEmail |-> <<>>,
      teamSize   |-> <<>>,
      prizes     |-> <<>>,
      venue      |-> <<>>,
      fullDesc   |-> <<>>,
      shortDesc  |-> <<>> ]

RowQuiz ==
    [ ts         |-> <<"t","5">>,
      name       |-> <<"Q","u","i","z">>,
      category   |-> <<"f","u","n">>,
      department |-> <<"P","h","y","s","i","c","s">>,
      date       |-> <<"1","2","/","1","/","2","0","2","5">>,
      fee        |-> <<"f","r","e","e">>,
      slots      |-> <<"m","a","n","y">>,
      time       |-> <<>>,
      coordName  |-> <<>>,
      coordPhone |-> <<>>,
      coordEmail |-> <<>>,
      teamSize   |-> <<"M","a","x","i","m","u","m"," ",":"," ","3">>,
      prizes     |-> <<"2","n","d"," ","5","0","0">>,
      venue      |-> <<"R","o","o","m"," ","7">>,
      fullDesc   |-> <<>>,
      shortDesc  |-> <<>> ]

(***************************************************************************)
(* The spreadsheet export read by the importer.  A sheet is a list of      *)
(* columns (header text, cell of each response); the export writes one     *)
(* comma-separated line per record and quotes a cell that holds a comma, a *)
(* quote or a line break.                                                  *)
(***************************************************************************)

Columns ==
    << <<S_Timestamp, "ts">>,        <<K_name, "name">>,
       <<K_category, "category">>,   <<K_department, "department">>,
       <<K_date, "date">>,           <<K_fee, "fee">>,
       <<K_maxSlots, "slots">>,      <<K_time, "time">>,
       <<K_coordName, "coordName">>, <<K_coordPhone, "coordPhone">>,
       <<K_coordEmail, "coordEmail">>, <<K_teamSize, "teamSize">>,
       <<K_prizes, "prizes">>,       <<K_venue, "venue">>,
       <<K_fullDesc, "fullDesc">>,   <<K_shortDesc, "shortDesc">> >>

csvCell(text) ==
    IF \E k \in 1..Len(text) : text[k] \in {",", "\"", "\n"}
    THEN <<"\"">> \o text \o <<"\"">>
    ELSE text

RECURSIVE csvJoin(_)
csvJoin(cells) ==
    IF cells = <<>> THEN <<>>
    ELSE IF Len(cells) = 1 THEN csvCell(cells[1])
    ELSE csvCell(cells[1]) \o <<",">> \o csvJoin(Tail(cells))

\* the text of a header up to its first line break
firstLine(text) == split(text, "\n")[1]

\* "export": the header cells are the form's question texts, line breaks
\* included; "flat": each header cell is cut at its first line break
HeaderStyles == {"export", "flat"}

headerLine(style) ==
    csvJoin([k \in 1..Len(Columns) |->
                IF style = "flat" THEN firstLine(Columns[k][1]) ELSE Columns[k][1]])

dataLine(response) == csvJoin([k \in 1..Len(Columns) |-> response[Columns[k][2]]])

RECURSIVE csvBody(_)
csvBody(responses) ==
    IF responses = <<>> THEN <<>>
    ELSE <<"\n">> \o dataLine(Head(responses)) \o csvBody(Tail(responses))

csvText(style, responses) == headerLine(style) \o csvBody(responses) \o <<"\n">>

\* a row as the row loop reads it: one property per header the code looks up
directRow(response) ==
    [key \in {Columns[k][1] : k \in 1..Len(Columns)} |->
        response[Columns[CHOOSE k \in 1..Len(Columns) : Columns[k][1] = key][2]]]

Seed_description ==
    <<"A"," ","r","a","c","e"," ","a","r","e","a"," ","w","i","l","l"," ","b","e"," ","c","r",
    "e","a","t","e","d"," ","w","i","t","h"," ","h","u","r","d","l","e","s","."," ","D","e","s",
    "i","g","n"," ","a"," ","r","o","b","o","t"," ","t","h","a","t"," ","c","a","n"," ","n","a",
    "v","i","g","a","t","e"," ","t","h","r","o","u","g","h"," ","c","h","a","l","l","e","n","g",
    "i","n","g"," ","o","b","s","t","a","c","l","e","s"," ","a","n","d"," ","c","o","m","p","l",
    "e","t","e"," ","t","h","e"," ","r","a","c","e"," ","i","n"," ","m","i","n","i","m","u","m",
    " ","t","i","m","e",".">>

Seed_shortDescription ==
    <<"R","o","b","o","t"," ","r","a","c","i","n","g"," ","t","h","r","o","u","g","h"," ","o",
    "b","s","t","a","c","l","e"," ","c","o","u","r","s","e">>

Seed_department ==
    <<"M","e","c","h","a","n","i","c","a","l">>

Seed_venue ==
    <<"J","C","E","R"," ","C","a","m","p","u","s">>

Seed_slug ==
    <<"r","o","b","o","-","r","a","c","e">>

(***************************************************************************)
(* The event document the admin route POST /seed-savishkar-events creates  *)
(* for 'Robo Race' (eventsData[1]).                                        *)
(***************************************************************************)

AdminId == "admin-1"

SeededRoboRace ==
    [ name             |-> S_RoboRace,
      department       |-> Seed_department,
      category         |-> Technical,
      shortDescription |-> Seed_shortDescription,
      description      |-> Seed_description,
      teamSize         |-> [min |-> 2, max |-> 4],
      registrationFee  |-> 0,
      slug             |-> slugOf(S_RoboRace),
      image            |-> "https://images.unsplash.com/photo-1505373877841-8d25f7d46678?w=800",
      date             |-> DateFromString(<<"2","0","2","5","-","0","3","-","1","5">>),
      time             |-> S_10AM,
      venue            |-> Seed_venue,
      maxParticipants  |-> 100,
      currentParticipants |-> 0,
      rules            |-> <<"Valid ID card required", "Follow event coordinators instructions">>,
      eligibility      |-> <<"Open to all college students">>,
      prizes           |-> [first |-> Rupee(<<"1","5","0","0">>), second |-> Rupee(<<"1","0","0","0">>)],
      coordinators     |-> <<>>,
      isActive         |-> TRUE,
      status           |-> "upcoming",
      onlineRegistrationOpen |-> TRUE,
      isFeatured       |-> FALSE,
      createdBy        |-> AdminId ]

\* the collection with no document, and after the seed route stored Robo Race
EmptyCollection == [n \in {} |-> <<>>]

CollectionOf(docs) == [n \in {d.name : d \in docs} |-> CHOOSE d \in docs : d.name = n]


(***************************************************************************)
(* The events the admin route POST /seed-savishkar-events creates.  The    *)
(* name, the department and the category are texts as everywhere else;    *)
(* the two descriptions, which nothing takes apart, are kept whole.        *)
(***************************************************************************)

eventsData ==
    <<
      [ name |-> <<"S","a","v","i","s","h","k","a","r"," ","B","u","s","i","n","e","s","s"," ","C","h","a","l",
            "l","e","n","g","e">>,
        department |-> <<"M","B","A">>,
        category |-> <<"N","o","n","-","T","e","c","h","n","i","c","a","l">>,
        shortDescription |->
          "Case solving and business pitch competition",
        description |->
          "Get ready to showcase your business brilliance! Reputation radar challenges participants to think critically and solve real-time business cases, testing decision-making and leadership skills. Boardroom Battles gives platform to pitch innovative business ideas.",
        teamSize |-> [min |-> 2, max |-> 2],
        registrationFee |-> 0 ],
      [ name |-> <<"R","o","b","o"," ","R","a","c","e">>,
        department |-> <<"M","e","c","h","a","n","i","c","a","l">>,
        category |-> <<"T","e","c","h","n","i","c","a","l">>,
        shortDescription |->
          "Robot racing through obstacle course",
        description |->
          "A race area will be created with hurdles. Design a robot that can navigate through challenging obstacles and complete the race in minimum time.",
        teamSize |-> [min |-> 2, max |-> 4],
        registrationFee |-> 0 ],
      [ name |-> <<"P","h","o","t","o","g","r","a","p","h","y"," ","C","o","n","t","e","s","t">>,
        department |-> <<"M","e","c","h","a","n","i","c","a","l">>,
        category |-> <<"T","e","c","h","n","i","c","a","l">>,
        shortDescription |->
          "Capture perfect shots with themes",
        description |->
          "Showcase your photography skills by clicking amazing photos on given topics. Open for both mobile and DSLR categories.",
        teamSize |-> [min |-> 1, max |-> 1],
        registrationFee |-> 0 ],
      [ name |-> <<"R","o","b","o"," ","S","o","c","c","e","r">>,
        department |-> <<"M","e","c","h","a","n","i","c","a","l">>,
        category |-> <<"T","e","c","h","n","i","c","a","l">>,
        shortDescription |->
          "Robotic football tournament",
        description |->
          "Two teams compete with their soccer bots. The team that scores more goals wins. Test your robot design and control skills!",
        teamSize |-> [min |-> 1, max |-> 4],
        registrationFee |-> 0 ],
      [ name |-> <<"R","o","b","o"," ","S","u","m","o"," ","W","a","r">>,
        department |-> <<"M","e","c","h","a","n","i","c","a","l">>,
        category |-> <<"T","e","c","h","n","i","c","a","l">>,
        shortDescription |->
          "Robot combat competition",
        description |->
          "Battle arena where robots fight to push opponents out. Build a strong sumo bot and dominate the arena!",
        teamSize |-> [min |-> 1, max |-> 4],
        registrationFee |-> 0 ],
      [ name |-> <<"T","e","c","h","n","i","c","a","l"," ","P","a","p","e","r"," ","P","r","e","s","e","n","t",
            "a","t","i","o","n">>,
        department |-> <<"M","e","c","h","a","n","i","c","a","l">>,
        category |-> <<"T","e","c","h","n","i","c","a","l">>,
        shortDescription |->
          "Present research papers",
        description |->
          "Platform to present innovative technical ideas and research work. Showcase your knowledge through PowerPoint presentations.",
        teamSize |-> [min |-> 2, max |-> 2],
        registrationFee |-> 0 ],
      [ name |-> <<"B","I","G","G"," ","B","O","S","S">>,
        department |-> <<"C","S","E">>,
        category |-> <<"N","o","n","-","T","e","c","h","n","i","c","a","l">>,
        shortDescription |->
          "Reality show inspired competition",
        description |->
          "Dynamic duo competition with 3 suspenseful eliminating rounds. Face exciting challenges that test wit, teamwork, and resilience!",
        teamSize |-> [min |-> 2, max |-> 2],
        registrationFee |-> 0 ],
      [ name |-> <<"3","D"," ","M","o","d","e","l","i","n","g"," ","C","o","m","p","e","t","i","t","i","o","n">>,
        department |-> <<"M","e","c","h","a","n","i","c","a","l">>,
        category |-> <<"T","e","c","h","n","i","c","a","l">>,
        shortDescription |->
          "CAD modeling challenge",
        description |->
          "Create stunning 3D models using Fusion 360. Two rounds of increasing difficulty testing your CAD skills and creativity.",
        teamSize |-> [min |-> 1, max |-> 1],
        registrationFee |-> 0 ],
      [ name |-> <<"S","q","u","i","d"," ","G","a","m","e"," ","C","h","a","l","l","e","n","g","e">>,
        department |-> <<"M","e","c","h","a","n","i","c","a","l">>,
        category |-> <<"N","o","n","-","T","e","c","h","n","i","c","a","l">>,
        shortDescription |->
          "Multi-round elimination games",
        description |->
          "Inspired by popular series, participate in 4 elimination rounds testing teamwork, focus, agility, and problem-solving.",
        teamSize |-> [min |-> 2, max |-> 2],
        registrationFee |-> 120 ],
      [ name |-> <<"H","A","C","K","S","P","H","E","R","E">>,
        department |-> <<"C","S","E">>,
        category |-> <<"T","e","c","h","n","i","c","a","l">>,
        shortDescription |->
          "Competitive programming hackathon",
        description |->
          "Test technical skills through DSA quiz, surprise challenges, and coding competition. Three progressive rounds culminating in final compile!",
        teamSize |-> [min |-> 3, max |-> 4],
        registrationFee |-> 300 ],
      [ name |-> <<"T","r","e","a","s","u","r","e"," ","H","u","n","t">>,
        department |-> <<"C","S","E">>,
        category |-> <<"N","o","n","-","T","e","c","h","n","i","c","a","l">>,
        shortDescription |->
          "Campus-wide treasure hunting",
        description |->
          "Thrilling clue-based adventure across campus. Four rounds testing logical reasoning, teamwork, and problem-solving abilities!",
        teamSize |-> [min |-> 4, max |-> 4],
        registrationFee |-> 0 ],
      [ name |-> <<"B","I","D"," ","P","r","e","m","i","e","r","e"," ","L","e","a","g","u","e">>,
        department |-> <<"C","S","E">>,
        category |-> <<"N","o","n","-","T","e","c","h","n","i","c","a","l">>,
        shortDescription |->
          "IPL auction and quiz",
        description |->
          "Ultimate fan arena featuring bidding quiz, IPL player auction with 20-crore purse, and mystery challenge rounds!",
        teamSize |-> [min |-> 4, max |-> 4],
        registrationFee |-> 0 ],
      [ name |-> <<"T","e","c","h","n","i","c","a","l"," ","P","a","p","e","r"," ","P","r","e","s","e","n","t",
            "a","t","i","o","n"," ","C","S","E">>,
        department |-> <<"C","S","E">>,
        category |-> <<"T","e","c","h","n","i","c","a","l">>,
        shortDescription |->
          "Research paper showcase",
        description |->
          "Present papers on AI/ML, Cybersecurity, IoT, Data Science, Robotics. Platform for innovative thinkers and researchers.",
        teamSize |-> [min |-> 2, max |-> 2],
        registrationFee |-> 150 ],
      [ name |-> <<"V","a","l","o","r","a","n","t"," ","T","o","u","r","n","a","m","e","n","t">>,
        department |-> <<"C","S","E">>,
        category |-> <<"N","o","n","-","T","e","c","h","n","i","c","a","l">>,
        shortDescription |->
          "5v5 tactical shooter",
        description |->
          "Team-based first-person tactical shooter event. Compete in Swiftplay, Semifinals, and Grand Finals across multiple maps!",
        teamSize |-> [min |-> 5, max |-> 5],
        registrationFee |-> 0 ],
      [ name |-> <<"B","G","M","I"," ","T","o","u","r","n","a","m","e","n","t">>,
        department |-> <<"C","S","E">>,
        category |-> <<"N","o","n","-","T","e","c","h","n","i","c","a","l">>,
        shortDescription |->
          "Battle royale gaming",
        description |->
          "Exciting battle royale competition on classic maps. Showcase gaming talent, strategy, and teamwork to emerge victorious!",
        teamSize |-> [min |-> 4, max |-> 4],
        registrationFee |-> 0 ],
      [ name |-> <<"N","r","i","t","y","a","N","o","v","a">>,
        department |-> <<"C","o","m","m","o","n">>,
        category |-> <<"C","u","l","t","u","r","a","l">>,
        shortDescription |->
          "Solo classical dance",
        description |->
          "Solo classical dance event where grace meets devotion. Dancers embody divine spirit through expressive movements and traditional rhythm.",
        teamSize |-> [min |-> 1, max |-> 1],
        registrationFee |-> 0 ],
      [ name |-> <<"S","e","c","o","n","d","s"," ","k","a"," ","T","a","s","h","a","n">>,
        department |-> <<"A","I","M","L">>,
        category |-> <<"N","o","n","-","T","e","c","h","n","i","c","a","l">>,
        shortDescription |->
          "Fast-paced task challenge",
        description |->
          "Fun event with multiple rounds of exciting tasks. Complete challenges in shortest time to advance to next round!",
        teamSize |-> [min |-> 2, max |-> 2],
        registrationFee |-> 0 ],
      [ name |-> <<"T","a","a","l","R","y","t","h","m">>,
        department |-> <<"C","o","m","m","o","n">>,
        category |-> <<"C","u","l","t","u","r","a","l">>,
        shortDescription |->
          "Solo western dance",
        description |->
          "Solo western dance event highlighting creativity, confidence, and individuality through energetic modern dance styles.",
        teamSize |-> [min |-> 1, max |-> 1],
        registrationFee |-> 0 ],
      [ name |-> <<"I","M","P","E","R","S","O","N","A">>,
        department |-> <<"E","C","E">>,
        category |-> <<"N","o","n","-","T","e","c","h","n","i","c","a","l">>,
        shortDescription |->
          "Personality contest",
        description |->
          "Journey through creativity, confidence, and charisma. Four rounds testing intelligence, talent showcase, and adaptability under pressure.",
        teamSize |-> [min |-> 1, max |-> 1],
        registrationFee |-> 0 ],
      [ name |-> <<"C","o","d","e","B","r","e","a","k","e","r"," ","E","s","c","a","p","e"," ","R","o","o","m">>,
        department |-> <<"A","I","M","L">>,
        category |-> <<"T","e","c","h","n","i","c","a","l">>,
        shortDescription |->
          "Tech escape room",
        description |->
          "Mind Over Machine - thrilling tech event blending coding, logic, and creativity. Interactive escape room experience with AI prompts!",
        teamSize |-> [min |-> 3, max |-> 4],
        registrationFee |-> 0 ],
      [ name |-> <<"T","a","n","d","a","v"," ","T","r","o","u","p","e">>,
        department |-> <<"C","o","m","m","o","n">>,
        category |-> <<"C","u","l","t","u","r","a","l">>,
        shortDescription |->
          "Group dance",
        description |->
          "Group dance event showcasing teamwork, coordination, and passion. Create powerful visual spectacle through synchronized performance!",
        teamSize |-> [min |-> 4, max |-> 7],
        registrationFee |-> 0 ],
      [ name |-> <<"C","h","e","c","k","m","a","t","e"," ","S","t","r","a","t","e","g","y">>,
        department |-> <<"E","C","E">>,
        category |-> <<"N","o","n","-","T","e","c","h","n","i","c","a","l">>,
        shortDescription |->
          "Chess with challenges",
        description |->
          "Thrilling twist on traditional chess combining strategy, teamwork, and real-world challenges. Play chess while completing live tasks!",
        teamSize |-> [min |-> 4, max |-> 4],
        registrationFee |-> 0 ],
      [ name |-> <<"E","l","e","c","t","r","o","Q","u","e","s","t">>,
        department |-> <<"E","C","E">>,
        category |-> <<"T","e","c","h","n","i","c","a","l">>,
        shortDescription |->
          "Electronics treasure hunt",
        description |->
          "Three fun rounds testing thinking, logic, and practical abilities. From quiz to circuit puzzles, design and build working circuits!",
        teamSize |-> [min |-> 4, max |-> 4],
        registrationFee |-> 0 ],
      [ name |-> <<"D","h","w","a","n","i"," ","S","o","l","o"," ","S","i","n","g","i","n","g">>,
        department |-> <<"C","o","m","m","o","n">>,
        category |-> <<"C","u","l","t","u","r","a","l">>,
        shortDescription |->
          "Solo singing competition",
        description |->
          "Solo Singing Competition with auditions and finale. Impress judges with vocal skills, song selection, and stage presence!",
        teamSize |-> [min |-> 1, max |-> 1],
        registrationFee |-> 0 ],
      [ name |-> <<"G","a","a","n","a"," ","G","r","o","o","v","e"," ","G","r","o","u","p"," ","S","i","n","g",
            "i","n","g">>,
        department |-> <<"C","o","m","m","o","n">>,
        category |-> <<"C","u","l","t","u","r","a","l">>,
        shortDescription |->
          "Group singing",
        description |->
          "Celebration of harmony, rhythm, and teamwork. Groups perform synchronized songs showcasing collaboration and musical talent!",
        teamSize |-> [min |-> 4, max |-> 7],
        registrationFee |-> 0 ],
      [ name |-> <<"C","o","r","p","o","r","a","t","e"," ","C","a","r","n","i","v","a","l">>,
        department |-> <<"E","C","E">>,
        category |-> <<"N","o","n","-","T","e","c","h","n","i","c","a","l">>,
        shortDescription |->
          "Business innovation event",
        description |->
          "Multi-round business event testing strategic thinking, creativity, and presentation. Pitch, design, strategize, and solve!",
        teamSize |-> [min |-> 2, max |-> 2],
        registrationFee |-> 0 ],
      [ name |-> <<"M","o","c","k"," ","C","I","D"," ","I","n","v","e","s","t","i","g","a","t","i","o","n">>,
        department |-> <<"C","i","v","i","l">>,
        category |-> <<"N","o","n","-","T","e","c","h","n","i","c","a","l">>,
        shortDescription |->
          "Case solving",
        description |->
          "Three rounds including quiz, treasure hunt, and case solving. Put your detective skills to test and solve mysteries!",
        teamSize |-> [min |-> 2, max |-> 3],
        registrationFee |-> 0 ],
      [ name |-> <<"S","p","i","n"," ","t","o"," ","W","i","n">>,
        department |-> <<"C","i","v","i","l">>,
        category |-> <<"N","o","n","-","T","e","c","h","n","i","c","a","l">>,
        shortDescription |->
          "Wheel spinning game",
        description |->
          "Spin the wheel and complete fun tasks to win exciting gifts. Simple, fun, and rewarding!",
        teamSize |-> [min |-> 1, max |-> 1],
        registrationFee |-> 0 ],
      [ name |-> <<"D","e","s","i","g","n"," ","D","y","n","a","m","i","x"," ","A","u","t","o","C","A","D">>,
        department |-> <<"C","i","v","i","l">>,
        category |-> <<"T","e","c","h","n","i","c","a","l">>,
        shortDescription |->
          "AutoCAD drafting",
        description |->
          "Draft floor plans and working drawings using AutoCAD. Showcase your technical drafting and design skills!",
        teamSize |-> [min |-> 1, max |-> 1],
        registrationFee |-> 0 ],
      [ name |-> <<"R","a","p","i","d"," ","R","u","s","h">>,
        department |-> <<"C","i","v","i","l">>,
        category |-> <<"N","o","n","-","T","e","c","h","n","i","c","a","l">>,
        shortDescription |->
          "Multi-round challenge",
        description |->
          "Multi-round competition testing skills, strategy, and adaptability. Every round is a knockout challenge!",
        teamSize |-> [min |-> 2, max |-> 2],
        registrationFee |-> 0 ],
      [ name |-> <<"M","o","d","u","l","u","x"," ","B","r","i","d","g","e"," ","B","u","i","l","d","i","n","g">>,
        department |-> <<"C","i","v","i","l">>,
        category |-> <<"T","e","c","h","n","i","c","a","l">>,
        shortDescription |->
          "Bridge construction",
        description |->
          "Build bridge models using allowed materials. Test for strength, load capacity, design efficiency, and creativity!",
        teamSize |-> [min |-> 3, max |-> 4],
        registrationFee |-> 0 ],
      [ name |-> <<"P","o","s","t","e","r"," ","P","r","e","s","e","n","t","a","t","i","o","n"," ","C","i","v",
            "i","l">>,
        department |-> <<"C","i","v","i","l">>,
        category |-> <<"T","e","c","h","n","i","c","a","l">>,
        shortDescription |->
          "Technical poster display",
        description |->
          "Prepare posters on A1 paper for selected technical topics. Present your ideas with clarity and technical depth!",
        teamSize |-> [min |-> 2, max |-> 2],
        registrationFee |-> 0 ],
      [ name |-> <<"V","i","d","e","o","g","r","a","p","h","y"," ","C","o","m","p","e","t","i","t","i","o","n">>,
        department |-> <<"C","i","v","i","l">>,
        category |-> <<"N","o","n","-","T","e","c","h","n","i","c","a","l">>,
        shortDescription |->
          "Video creation",
        description |->
          "Single-round videography competition testing creative skills and video production abilities. Capture campus life!",
        teamSize |-> [min |-> 2, max |-> 3],
        registrationFee |-> 0 ]
    >>

(***************************************************************************)
(* The rest of the database and the server in front of it.  The importer   *)
(* touches none of it: the routes, further down, do.                       *)
(***************************************************************************)

VARIABLES
    Users,          \* the user collection: id -> document
    Registrations,  \* the registration documents
    Payments,       \* the payment documents
    Notifications,  \* the notification documents
    Settings,       \* the settings collection: key -> document
    res,            \* what the last request was answered with
    indexes,        \* the fields of an event the store keeps unique
    mail,           \* the emails handed to sendEmail: <<user, kind>> -> state
    scheduledTime,  \* the time kept by the registration auto-disable service
    toggled,        \* the last value PUT /registration-control stored, while
                    \* no other route has written or deleted the key since
    timerWrote      \* the auto-disable service wrote the key after the last
                    \* route that wrote it

serverVars == <<Users, Registrations, Payments, Notifications, Settings, res,
                indexes, mail, scheduledTime, toggled, timerWrote>>

NoResponse == [route |-> "none", caller |-> "none", status |-> 0, body |-> <<>>]

\* no request has been served and the collections other than Events are empty
ServerEmpty ==
    /\ Users = <<>>
    /\ Registrations = {}
    /\ Payments = {}
    /\ Notifications = {}
    /\ Settings = <<>>
    /\ res = NoResponse
    /\ mail = <<>>
    /\ scheduledTime = "unset"
    /\ toggled = "never"
    /\ timerWrote = FALSE

ServerIdle == ServerEmpty /\ indexes = {"name"}
(***************************************************************************)
(* The importer as a state machine                                         *)
(***************************************************************************)

\* bounds of the model
MaxRows == 2

MaxRuns == 2

MaxFaults == 1

\* the responses a sheet may hold
Responses == {RowRobo2, RowRobo4, RowNoName, RowHeaderLike, RowQuiz}

\* the messages a rejected upsert carries
ErrorMessages == {"E11000 duplicate key error", "Event validation failed"}

NoFile == [style |-> "none", responses |-> <<>>]

\* the sequences of at most n different elements of S
NoRepeat(q) == \A a, b \in 1..Len(q) : a # b => q[a] # q[b]

RECURSIVE SheetsUpTo(_, _)
SheetsUpTo(S, n) ==
    IF n = 0 THEN {<<>>}
    ELSE LET shorter == SheetsUpTo(S, n - 1)
             longer  == {Append(q, x) : q \in {p \in shorter : Len(p) = n - 1}, x \in S}
         IN  shorter \cup {q \in longer : NoRepeat(q)}

\* the end-to-end scenario of the specification: two Robo Race responses and
\* one response without a name
ScenarioSheet == <<RowRobo2, RowRobo4, RowNoName>>

\* the sheets tried with the multi-line "export" header
ExportSheets == {<<>>, <<RowRobo4>>}

\* a file is the header style and the responses of the exported sheet
CsvFiles ==
    {[style |-> "flat", responses |-> rs] :
        rs \in SheetsUpTo(Responses, MaxRows) \cup {ScenarioSheet}}
    \cup {[style |-> "export", responses |-> rs] : rs \in ExportSheets}

\* fs.readFileSync(filePath, 'utf-8'); a file of style "text" holds its text
\* as it stands
readFileSync(file) ==
    IF file.style = "text" THEN file.text ELSE csvText(file.style, file.responses)

InitialCollections == {EmptyCollection, CollectionOf({SeededRoboRace})}

VARIABLES
    csvFile,        \* the sheet exported to csvFilePath, or NoFile
    Events,         \* the event collection: name -> document
    pc,             \* where importEvents stands
    run,            \* how many times the script has been started
    rows,           \* const rows = parseCSV(csvFilePath)
    uniqueEvents,   \* the Map, in insertion order
    finalEvents,    \* Array.from(uniqueEvents.values())
    eventIndex,     \* position of the upsert loop in finalEvents
    successCount,
    errorCount,
    deptCounts,
    console,        \* the lines the run has printed
    faults,         \* refused connections, rejected upserts and kills so far
    parseCalls,     \* calls of parseCSV in this run
    rejected,       \* the errors the store has thrown in this run
    startEvents,    \* the collection when this run started
    history         \* one entry per finished run

vars == <<csvFile, Events, pc, run, rows, uniqueEvents, finalEvents, eventIndex,
          successCount, errorCount, deptCounts, console, faults, parseCalls,
          rejected, startEvents, history, serverVars>>

locals == <<rows, uniqueEvents, finalEvents, eventIndex, successCount, errorCount,
            deptCounts, parseCalls, rejected>>

Init ==
    /\ csvFile \in CsvFiles \cup {NoFile}
    /\ Events \in InitialCollections
    /\ pc = "start"
    /\ run = 1
    /\ rows = <<>>
    /\ uniqueEvents = <<>>
    /\ finalEvents = <<>>
    /\ eventIndex = 0
    /\ successCount = 0
    /\ errorCount = 0
    /\ deptCounts = <<>>
    /\ console = <<>>
    /\ faults = 0
    /\ parseCalls = 0
    /\ rejected = <<>>
    /\ startEvents = Events
    /\ history = <<>>
    /\ ServerIdle

\* the run is over: the finally block has disconnected
Finish(outcome, lines) ==
    /\ pc' = "done"
    /\ console' = console \o lines
    /\ history' = Append(history, [outcome    |-> outcome,
                                   before     |-> startEvents,
                                   after      |-> Events,
                                   errorCount |-> errorCount])

\* await mongoose.connect(process.env.MONGO_URI)
Connect ==
    /\ pc = "start"
    /\ pc' = "connected"
    /\ UNCHANGED <<csvFile, Events, run, locals, console, faults, startEvents, history>>
    /\ UNCHANGED serverVars

\* the connection is refused: the outer catch prints the error
ConnectFails ==
    /\ pc = "start"
    /\ faults < MaxFaults
    /\ faults' = faults + 1
    /\ Finish("connect-error", <<[kind |-> "error"]>>)
    /\ UNCHANGED <<csvFile, Events, run, locals, startEvents>>
    /\ UNCHANGED serverVars

\* if (!fs.existsSync(csvFilePath)) { console.error(...); return; }
FileMissing ==
    /\ pc = "connected"
    /\ csvFile = NoFile
    /\ Finish("no-file", <<[kind |-> "csv-not-found"]>>)
    /\ UNCHANGED <<csvFile, Events, run, locals, faults, startEvents>>
    /\ UNCHANGED serverVars

\* the reader called without the existsSync test
ReadCSV_unguarded ==
    /\ pc = "connected"
    /\ rows' = IF csvFile = NoFile THEN <<>> ELSE parseCSV(readFileSync(csvFile))
    /\ parseCalls' = parseCalls + 1
    /\ pc' = "rows"
    /\ console' = Append(console, [kind |-> "found-rows", count |-> Len(rows')])
    /\ UNCHANGED <<csvFile, Events, run, uniqueEvents, finalEvents, eventIndex,
                   successCount, errorCount, deptCounts, faults, rejected,
                   startEvents, history>>
    /\ UNCHANGED serverVars

\* const rows = parseCSV(csvFilePath)
ReadCSV ==
    /\ pc = "connected"
    /\ csvFile # NoFile
    /\ rows' = parseCSV(readFileSync(csvFile))
    /\ parseCalls' = parseCalls + 1
    /\ pc' = "rows"
    /\ console' = Append(console, [kind |-> "found-rows", count |-> Len(rows')])
    /\ UNCHANGED <<csvFile, Events, run, uniqueEvents, finalEvents, eventIndex,
                   successCount, errorCount, deptCounts, faults, rejected,
                   startEvents, history>>
    /\ UNCHANGED serverVars

\* for (const row of rows) { ... uniqueEvents.set(eventName, event) }
RECURSIVE normalizeRows(_, _, _)
normalizeRows(rws, k, m) ==
    IF k > Len(rws) THEN m
    ELSE normalizeRows(rws, k + 1,
                       IF skipsRow(rws[k]) THEN m ELSE mapSet(m, eventOf(rws[k])))

\* the row loop, which never awaits, and the copy of the Map into finalEvents
NormalizeRows ==
    /\ pc = "rows"
    /\ uniqueEvents' = normalizeRows(rows, 1, uniqueEvents)
    /\ finalEvents' = uniqueEvents'
    /\ eventIndex' = 1
    /\ pc' = "upserts"
    /\ console' = Append(console, [kind |-> "parsed", count |-> Len(uniqueEvents')])
    /\ UNCHANGED <<csvFile, Events, run, rows, successCount, errorCount, deptCounts,
                   faults, parseCalls, rejected, startEvents, history>>
    /\ UNCHANGED serverVars

\* one pass of for (const event of finalEvents): the upsert resolves
UpsertSucceeds ==
    /\ pc = "upserts"
    /\ eventIndex <= Len(finalEvents)
    /\ Events' = findOneAndUpdate(Events, finalEvents[eventIndex])
    /\ successCount' = successCount + 1
    /\ console' = Append(console, [kind |-> "imported",
                                   name |-> finalEvents[eventIndex].name])
    /\ eventIndex' = eventIndex + 1
    /\ UNCHANGED <<csvFile, pc, run, rows, uniqueEvents, finalEvents, errorCount,
                   deptCounts, faults, parseCalls, rejected, startEvents, history>>
    /\ UNCHANGED serverVars

\* a rejected upsert that leaves the loop
UpsertFails_abortsBatch ==
    /\ pc = "upserts"
    /\ eventIndex <= Len(finalEvents)
    /\ faults < MaxFaults
    /\ \E message \in ErrorMessages :
          /\ rejected' = Append(rejected, [name    |-> finalEvents[eventIndex].name,
                                          message |-> message])
          /\ console' = Append(console, [kind    |-> "failed",
                                        name    |-> finalEvents[eventIndex].name,
                                        message |-> message])
    /\ errorCount' = errorCount + 1
    /\ faults' = faults + 1
    /\ eventIndex' = Len(finalEvents) + 1
    /\ UNCHANGED <<csvFile, Events, pc, run, rows, uniqueEvents, finalEvents,
                   successCount, deptCounts, parseCalls, startEvents, history>>
    /\ UNCHANGED serverVars

\* one pass of for (const event of finalEvents): the upsert rejects
UpsertFails ==
    /\ pc = "upserts"
    /\ eventIndex <= Len(finalEvents)
    /\ faults < MaxFaults
    /\ \E message \in ErrorMessages :
          /\ rejected' = Append(rejected, [name    |-> finalEvents[eventIndex].name,
                                          message |-> message])
          /\ console' = Append(console, [kind    |-> "failed",
                                        name    |-> finalEvents[eventIndex].name,
                                        message |-> message])
    /\ errorCount' = errorCount + 1
    /\ faults' = faults + 1
    /\ eventIndex' = eventIndex + 1
    /\ UNCHANGED <<csvFile, Events, pc, run, rows, uniqueEvents, finalEvents,
                   successCount, deptCounts, parseCalls, startEvents, history>>
    /\ UNCHANGED serverVars

\* the lines printed after the upsert loop
summaryLines(success, errors, counts) ==
    <<[kind |-> "success-total", count |-> success]>>
    \o (IF errors > 0 THEN <<[kind |-> "failed-total", count |-> errors]>> ELSE <<>>)
    \o <<[kind |-> "by-department", counts |-> counts]>>

PrintSummary ==
    /\ pc = "upserts"
    /\ eventIndex > Len(finalEvents)
    /\ deptCounts' = deptCountsOf(finalEvents)
    /\ Finish("complete", summaryLines(successCount, errorCount, deptCounts'))
    /\ UNCHANGED <<csvFile, Events, run, rows, uniqueEvents, finalEvents, eventIndex,
                   successCount, errorCount, faults, parseCalls, rejected, startEvents>>
    /\ UNCHANGED serverVars

\* a kill that undoes the upserts of the run
Interrupt_rollsBack ==
    /\ pc = "upserts"
    /\ eventIndex <= Len(finalEvents)
    /\ faults < MaxFaults
    /\ faults' = faults + 1
    /\ Events' = startEvents
    /\ pc' = "done"
    /\ history' = Append(history, [outcome    |-> "interrupted",
                                   before     |-> startEvents,
                                   after      |-> startEvents,
                                   errorCount |-> errorCount])
    /\ UNCHANGED <<csvFile, run, locals, console, startEvents>>
    /\ UNCHANGED serverVars

\* the process is killed between two upserts
Interrupt ==
    /\ pc = "upserts"
    /\ eventIndex <= Len(finalEvents)
    /\ faults < MaxFaults
    /\ faults' = faults + 1
    /\ Finish("interrupted", <<>>)
    /\ UNCHANGED <<csvFile, Events, run, locals, startEvents>>
    /\ UNCHANGED serverVars

\* the script is started again on the same file
Rerun ==
    /\ pc = "done"
    /\ run < MaxRuns
    /\ run' = run + 1
    /\ pc' = "start"
    /\ rows' = <<>>
    /\ uniqueEvents' = <<>>
    /\ finalEvents' = <<>>
    /\ eventIndex' = 0
    /\ successCount' = 0
    /\ errorCount' = 0
    /\ deptCounts' = <<>>
    /\ console' = <<>>
    /\ parseCalls' = 0
    /\ rejected' = <<>>
    /\ startEvents' = Events
    /\ UNCHANGED <<csvFile, Events, faults, history>>
    /\ UNCHANGED serverVars

Next ==
    \/ Connect
    \/ ConnectFails
    \/ FileMissing
    \/ ReadCSV
    \/ NormalizeRows
    \/ UpsertSucceeds
    \/ UpsertFails
    \/ PrintSummary
    \/ Interrupt
    \/ Rerun

Spec == Init /\ [][Next]_vars

(***************************************************************************)
(* The row loop on its own: the rows are given directly, keyed by the      *)
(* headers the loop reads.                                                 *)
(***************************************************************************)

DirectNames ==
    { S_RoboRace, S_Quiz, <<>>, S_HeaderLike, <<" ", "Q", "u", "i", "z", " ">> }

DirectDates ==
    { <<>>, <<"3","/","1","5","/","2","0","2","5">>, <<"T","B","D">>,
      <<"2","0","2","5","-","1","1","-","2","0">>, <<"1","5","/","3">> }

DirectTeamSizes ==
    { <<>>, <<"2">>, <<"M","i","n","i","m","u","m"," ",":"," ","2","\n",
                       "M","a","x","i","m","u","m"," ",":"," ","4">> }

DirectFees == { <<>>, <<"R","s"," ","1","0","0">>, <<"f","r","e","e">> }

DirectResponses ==
    { [RowQuiz EXCEPT !.name = n, !.date = d, !.teamSize = t, !.fee = f] :
        n \in DirectNames, d \in DirectDates, t \in DirectTeamSizes, f \in DirectFees }

InitRows ==
    /\ csvFile = NoFile
    /\ Events = EmptyCollection
    /\ pc = "rows"
    /\ run = 1
    /\ \E sheet \in SheetsUpTo(DirectResponses, 1) :
          rows = [k \in 1..Len(sheet) |-> directRow(sheet[k])]
    /\ uniqueEvents = <<>>
    /\ finalEvents = <<>>
    /\ eventIndex = 0
    /\ successCount = 0
    /\ errorCount = 0
    /\ deptCounts = <<>>
    /\ console = <<>>
    /\ faults = 0
    /\ parseCalls = 0
    /\ rejected = <<>>
    /\ startEvents = Events
    /\ history = <<>>
    /\ ServerIdle

NextRows == NormalizeRows

SpecRows == InitRows /\ [][NextRows]_vars

(***************************************************************************)
(* Properties                                                              *)
(***************************************************************************)

LastRun == history[Len(history)]

\* the run that just ended went through the whole upsert loop
CompletedRun == pc = "done" /\ LastRun.outcome = "complete"

NameField(row) == Prop(row, K_name)

\* the name field is empty, or its lowercased text contains "event name"
DroppedByName(row) ==
    \/ NameField(row) \in {Undefined, <<>>}
    \/ includes(toLowerCase(NameField(row)), S_eventName)

KeptRows == {k \in 1..Len(rows) : ~DroppedByName(rows[k])}

\* the last kept row that carries the same trimmed name as row k
LastRowNamedAs(k) ==
    CHOOSE m \in KeptRows :
        /\ trim(NameField(rows[m])) = trim(NameField(rows[k]))
        /\ \A x \in KeptRows :
              trim(NameField(rows[x])) = trim(NameField(rows[k])) => x <= m

\* every field of record is stored, with the same value, under the record's name
StoredAs(coll, record) ==
    /\ record.name \in DOMAIN coll
    /\ \A f \in DOMAIN record :
          f \in DOMAIN coll[record.name] /\ coll[record.name][f] = record[f]

\* the lines of the console that report one upsert each
IsUpsertLine(line) == line.kind \in {"imported", "failed"}

UpsertLog == SelectSeq(console, IsUpsertLine)

\* C1: after an import without persistence failure the collection holds, for
\* every name carried by a kept row, one document whose imported fields are
\* those normalized from the last row of that name, and no other new document
C1_LastRowWins ==
    (CompletedRun /\ errorCount = 0) =>
        /\ DOMAIN Events =
              DOMAIN startEvents \cup {trim(NameField(rows[k])) : k \in KeptRows}
        /\ \A k \in KeptRows : StoredAs(Events, eventOf(rows[LastRowNamedAs(k)]))

\* two kept rows of one name with different normalized fields were imported
C1_Witness ==
    /\ CompletedRun
    /\ errorCount = 0
    /\ \E k, m \in KeptRows :
          /\ k < m
          /\ m = LastRowNamedAs(k)
          /\ eventOf(rows[k]).registrationFee # eventOf(rows[m]).registrationFee
          /\ Events[trim(NameField(rows[k]))].registrationFee
                = eventOf(rows[m]).registrationFee

\* C2: a complete import that directly follows a complete import without
\* persistence failure, on the same file, leaves the collection as it found it
C2_Idempotent ==
    \A a \in 1..(Len(history) - 1) :
        ( /\ history[a].outcome = "complete"
          /\ history[a].errorCount = 0
          /\ history[a + 1].outcome = "complete" )
        => history[a + 1].after = history[a].after

\* two complete imports in a row, the first of which changed the collection
C2_Witness ==
    /\ Len(history) = 2
    /\ history[1].outcome = "complete"
    /\ history[1].errorCount = 0
    /\ history[2].outcome = "complete"
    /\ history[1].after # history[1].before
    /\ Len(finalEvents) >= 1

\* the files of the end-to-end scenario: a one-line header, two responses named
\* Robo Race (team size "2" then "4", fee "0" then "100", venues "Lab 1" then
\* "Quadrangle") and one response without a name
ScenarioFile == [style |-> "flat", responses |-> ScenarioSheet]

\* C3: importing the scenario file into an empty collection stores exactly one
\* document, named Robo Race, with teamSize {min:4,max:4}, registrationFee 100
\* and the venue of the later row, and counts 1 success and 0 errors
C3_EndToEnd ==
    ( /\ CompletedRun
      /\ run = 1
      /\ faults = 0
      /\ csvFile = ScenarioFile
      /\ startEvents = EmptyCollection )
    => /\ DOMAIN Events = {S_RoboRace}
       /\ Events[S_RoboRace].teamSize = [min |-> 4, max |-> 4]
       /\ Events[S_RoboRace].registrationFee = 100
       /\ Events[S_RoboRace].venue = S_Quadrangle
       /\ successCount = 1
       /\ errorCount = 0

\* the names of the rows that are not dropped
KeptNames == {trim(NameField(rows[k])) : k \in KeptRows}

\* C4: a row leaves no record in the Map, no upsert and no count exactly when
\* its name is empty or contains "event name" in any letter case
C4_DroppedRows ==
    /\ pc \in {"upserts", "done"} /\ parseCalls = 1 =>
          /\ {uniqueEvents[k].name : k \in 1..Len(uniqueEvents)} = KeptNames
          /\ Len(uniqueEvents) = Cardinality(KeptNames)
          /\ \A k \in 1..Len(UpsertLog) : UpsertLog[k].name \in KeptNames
          /\ DOMAIN Events \subseteq DOMAIN startEvents \cup KeptNames
    /\ CompletedRun => successCount + errorCount = Cardinality(KeptNames)

\* a finished import whose rows held a header-like name and a kept name
C4_Witness ==
    /\ CompletedRun
    /\ \E k \in 1..Len(rows) : NameField(rows[k]) # <<>> /\ DroppedByName(rows[k])
    /\ \E k \in 1..Len(rows) : NameField(rows[k]) = <<>>
    /\ successCount + errorCount = 0

\* a calendar date, or what the engine's own parser made of a string that
\* ECMAScript leaves to it
WellFormedDate(d) == d.valid \/ "engine" \in DOMAIN d

\* C5: every row with a non-empty name that does not contain "event name"
\* yields one record under that name whose fields are well formed, whatever
\* its other cells hold: in particular its date is a calendar date
C5_NamedRowYieldsRecord ==
    pc = "upserts" =>
        \A k \in KeptRows :
            \E e \in 1..Len(uniqueEvents) :
                /\ uniqueEvents[e].name = trim(NameField(rows[k]))
                /\ \A o \in 1..Len(uniqueEvents) :
                      uniqueEvents[o].name = uniqueEvents[e].name => o = e
                /\ WellFormedDate(uniqueEvents[e].date)
                /\ uniqueEvents[e].teamSize.min >= 1
                /\ uniqueEvents[e].registrationFee >= 0

\* C6: a rejected upsert does not end the loop: every deduplicated record is
\* attempted once, in order, every record whose upsert resolved is stored, and
\* the two counts add up to the number of deduplicated records
C6_FailureDoesNotAbort ==
    CompletedRun =>
        /\ successCount + errorCount = Len(finalEvents)
        /\ Len(UpsertLog) = Len(finalEvents)
        /\ \A k \in 1..Len(finalEvents) :
              /\ UpsertLog[k].name = finalEvents[k].name
              /\ \A m \in 1..Len(finalEvents) :
                    finalEvents[m].name = finalEvents[k].name => m = k
              /\ UpsertLog[k].kind = "imported" => StoredAs(Events, finalEvents[k])

\* a finished import in which an upsert was rejected before another resolved
C6_Witness ==
    /\ CompletedRun
    /\ \E k, m \in 1..Len(UpsertLog) :
          k < m /\ UpsertLog[k].kind = "failed" /\ UpsertLog[m].kind = "imported"

RECURSIVE SumOf(_, _)
SumOf(f, S) ==
    IF S = {} THEN 0
    ELSE LET x == CHOOSE y \in S : TRUE IN f[x] + SumOf(f, S \ {x})

LinesOfKind(kind) == {k \in 1..Len(console) : console[k].kind = kind}

IsFailedLine(line) == line.kind = "failed"

\* C7: what a finished import printed holds one error line per rejected upsert,
\* with that record's name and the message thrown, the number of unique
\* records, the success count, and department counts that sum to that number
C7_Summary ==
    CompletedRun =>
        /\ LET failedLines == SelectSeq(console, IsFailedLine)
           IN  /\ Len(failedLines) = Len(rejected)
               /\ \A k \in 1..Len(rejected) :
                     /\ failedLines[k].name = rejected[k].name
                     /\ failedLines[k].message = rejected[k].message
        /\ \E k \in LinesOfKind("parsed") : console[k].count = Len(finalEvents)
        /\ \E k \in LinesOfKind("success-total") :
              console[k].count = Len(finalEvents) - Len(rejected)
        /\ \E k \in LinesOfKind("by-department") :
              SumOf(console[k].counts, DOMAIN console[k].counts) = Len(finalEvents)

\* a finished import of two records of one department, one of them rejected
C7_Witness ==
    /\ CompletedRun
    /\ Len(rejected) = 1
    /\ \E d \in DOMAIN deptCounts : deptCounts[d] = 2

\* C8: without the file nothing is parsed or upserted, the collection stays as
\* it was, and the run ends by reporting that the file was not found
C8_MissingFile ==
    csvFile = NoFile =>
        /\ parseCalls = 0
        /\ rows = <<>>
        /\ UpsertLog = <<>>
        /\ Events = startEvents
        /\ \A k \in 1..Len(history) : history[k].after = history[k].before
        /\ pc = "done" => /\ LastRun.outcome \in {"no-file", "connect-error"}
                          /\ LastRun.outcome = "no-file" =>
                                LinesOfKind("csv-not-found") # {}

\* a run that ended because the file was missing
C8_Witness == csvFile = NoFile /\ pc = "done" /\ LastRun.outcome = "no-file"

\* the record of the upsert that has just resolved
JustUpserted == finalEvents[eventIndex - 1]

AfterResolvedUpsert ==
    /\ pc = "upserts"
    /\ eventIndex > 1
    /\ UpsertLog[eventIndex - 1].kind = "imported"

\* C9 as claimed: after an upsert onto a stored document of the same name the
\* stored document is the imported record and nothing of the old one survives
C9_UpsertReplacesDocument ==
    AfterResolvedUpsert => Events[JustUpserted.name] = JustUpserted

\* C9 as amended: an upsert gives every field of the imported record its
\* imported value, keeps every other field of a stored document of that name,
\* and leaves the other documents alone
C9_UpsertSetsImportedFields ==
    [][ (pc = "upserts" /\ successCount' = successCount + 1) =>
          LET e == finalEvents[eventIndex]
              n == e.name
          IN  /\ StoredAs(Events', e)
              /\ DOMAIN Events' = DOMAIN Events \cup {n}
              /\ \A x \in DOMAIN Events \ {n} : Events'[x] = Events[x]
              /\ n \in DOMAIN Events =>
                    /\ DOMAIN Events'[n] = DOMAIN Events[n] \cup DOMAIN e
                    /\ \A f \in DOMAIN Events[n] \ DOMAIN e :
                          Events'[n][f] = Events[n][f] ]_vars

\* a seeded document has just been upserted: the imported fee is stored and
\* the seeded createdBy and currentParticipants are still there
C9_Witness ==
    /\ AfterResolvedUpsert
    /\ JustUpserted.name \in DOMAIN startEvents
    /\ Events[JustUpserted.name].registrationFee = 100
    /\ startEvents[JustUpserted.name].registrationFee = 0
    /\ Events[JustUpserted.name].createdBy = AdminId
    /\ Events[JustUpserted.name].currentParticipants = 0

\* an uninterrupted import without persistence failure: the upserts in order
RECURSIVE upsertAll(_, _)
upsertAll(coll, events) ==
    IF events = <<>> THEN coll
    ELSE upsertAll(findOneAndUpdate(coll, Head(events)), Tail(events))

\* C10: the records upserted before a kill are stored, and a complete import
\* of the same file right after the killed one ends in the collection that one
\* uninterrupted import from the collection before the kill would have left
C10_InterruptedThenComplete ==
    /\ (pc = "done" /\ LastRun.outcome = "interrupted") =>
          \A k \in 1..Len(UpsertLog) :
              UpsertLog[k].kind = "imported" => StoredAs(Events, finalEvents[k])
    /\ ( /\ pc = "done"
         /\ Len(history) >= 2
         /\ history[Len(history) - 1].outcome = "interrupted"
         /\ LastRun.outcome = "complete"
         /\ LastRun.errorCount = 0 )
       => Events = upsertAll(history[Len(history) - 1].before, finalEvents)

\* an import killed after its first upsert and before its second, then rerun
C10_Witness ==
    /\ Len(history) = 2
    /\ history[1].outcome = "interrupted"
    /\ history[1].after # history[1].before
    /\ history[2].outcome = "complete"
    /\ history[2].errorCount = 0
    /\ history[2].after # history[1].after

(***************************************************************************)
(* The field parsers on their own: one row, keyed by the headers the row   *)
(* loop reads, whose cell under one header is drawn from a set of texts.   *)
(***************************************************************************)

\* how many tokens a drawn text is made of
MaxTokens == 2

\* the texts made of at most n of the tokens
RECURSIVE TextsOf(_, _)
TextsOf(tokens, n) ==
    IF n = 0 THEN {<<>>}
    ELSE LET shorter == TextsOf(tokens, n - 1)
         IN  shorter \cup {t \o x : t \in shorter, x \in tokens}

\* the row of a response with one cell replaced, or with no such property at
\* all when the value is Undefined
fieldRow(response, column, value) ==
    LET key == Columns[CHOOSE k \in 1..Len(Columns) : Columns[k][2] = column][1]
        row == directRow(response)
    IN  IF value = Undefined
        THEN [h \in (DOMAIN row) \ {key} |-> row[h]]
        ELSE [row EXCEPT ![key] = value]

\* the row loop is about to start on one of the given rows
FieldInit(rowSet) ==
    /\ csvFile = NoFile
    /\ Events = EmptyCollection
    /\ pc = "rows"
    /\ run = 1
    /\ rows \in {<<r>> : r \in rowSet}
    /\ uniqueEvents = <<>>
    /\ finalEvents = <<>>
    /\ eventIndex = 0
    /\ successCount = 0
    /\ errorCount = 0
    /\ deptCounts = <<>>
    /\ console = <<>>
    /\ faults = 0
    /\ parseCalls = 0
    /\ rejected = <<>>
    /\ startEvents = Events
    /\ history = <<>>
    /\ ServerIdle

\* the row loop has turned the one row into the one record
FieldParsed == pc = "upserts" /\ Len(rows) = 1 /\ Len(uniqueEvents) = 1

\* ---- team size ----

TeamSizeTokens ==
    { <<"M","i","n","i","m","u","m"," ",":"," ","2","\n">>, <<"m","i","n","i","m","u","m"," ","4"," ">>, <<"M","a","x","i","m","u","m"," ",":"," ","4">>, <<"M","A","X","I","M","U","M",":","3"," ">>,
      <<"m","a","x","i","m","u","m"," ">>, <<"m","i","n","i","m","u","m"," ">>, <<"m","a","x","i","m","u","m"," ","o","f"," ">>, <<"2">>, <<"0">>, <<"1","0"," ">>, <<"t","e","a","m"," ">> }

TeamSizeTexts == TextsOf(TeamSizeTokens, MaxTokens) \cup {Undefined}

InitTeamSize == FieldInit({fieldRow(RowQuiz, "teamSize", t) : t \in TeamSizeTexts})

SpecTeamSize == InitTeamSize /\ [][NextRows]_vars

\* the cell the row loop hands to parseTeamSize, and what came back
TeamSizeField == Prop(rows[1], K_teamSize)

TeamSizeResult == uniqueEvents[1].teamSize

\* C11: for every team-size text the result has min >= 1, max >= 1 and
\* min <= max, and an absent field gives {1,1}
C11_TeamSizeRange ==
    FieldParsed =>
        /\ TeamSizeResult.min >= 1
        /\ TeamSizeResult.max >= 1
        /\ TeamSizeResult.min <= TeamSizeResult.max
        /\ Falsy(TeamSizeField) => TeamSizeResult = [min |-> 1, max |-> 1]

\* the number a label carries in a text: the digits after the leftmost
\* "label", optional white space, an optional colon and optional white space
LabelledNumber(text, label) == labelNumber(text, label, {})

\* C12: a minimum and a maximum label give {N,M}; a maximum label without a
\* minimum label gives {1,M}; without any label the first number gives {N,N};
\* without any number the result is {1,1}
C12_TeamSizeLabelRule ==
    (FieldParsed /\ ~Falsy(TeamSizeField)) =>
        LET minN == LabelledNumber(TeamSizeField, S_minimum)
            maxM == LabelledNumber(TeamSizeField, S_maximum)
            bare == firstDigitRun(TeamSizeField)
        IN  /\ (minN # <<>> /\ maxM # <<>>) =>
                  TeamSizeResult = [min |-> parseIntDigits(minN), max |-> parseIntDigits(maxM)]
            /\ (minN = <<>> /\ maxM # <<>>) =>
                  TeamSizeResult = [min |-> 1, max |-> parseIntDigits(maxM)]
            /\ (minN = <<>> /\ maxM = <<>> /\ bare # <<>>) =>
                  TeamSizeResult = [min |-> parseIntDigits(bare), max |-> parseIntDigits(bare)]
            /\ bare = <<>> => TeamSizeResult = [min |-> 1, max |-> 1]

\* the form's own example has been parsed
C12_Witness ==
    /\ FieldParsed
    /\ TeamSizeField = <<"M","i","n","i","m","u","m"," ",":"," ","2","\n">> \o <<"M","a","x","i","m","u","m"," ",":"," ","4">>
    /\ TeamSizeResult = [min |-> 2, max |-> 4]

\* ---- date ----

DateTokens ==
    { <<"3","/","1","5","/">>, <<"2","0","2","5">>, <<"1","2","/">>, <<"/","2","0","2","5">>, <<"T","B","D">>, <<"2","0","2","5","-","1","1","-">>, <<"2","0">>,
      <<"1","3","/","4","5","/">>, <<" ">>, <<"a","/","b","/","c">>, <<"2","5">> }

DateTexts == TextsOf(DateTokens, MaxTokens) \cup {Undefined}

InitDate == FieldInit({fieldRow(RowQuiz, "date", t) : t \in DateTexts})

SpecDate == InitDate /\ [][NextRows]_vars

DateField == Prop(rows[1], K_date)

DateResult == uniqueEvents[1].date

\* a text of exactly three '/'-separated runs of digits that name a month and
\* a day of that month
IsMonthDayYear(text) ==
    LET p == split(trim(text), "/")
    IN  /\ Len(p) = 3
        /\ \A k \in 1..3 : AllDigits(p[k])
        /\ parseIntDigits(p[1]) \in 1..12
        /\ parseIntDigits(p[2]) \in 1..DaysInMonth(parseIntDigits(p[3]), parseIntDigits(p[1]))

\* C13: parseDate yields a calendar date for every text: M/D/Y gives month M,
\* day D, year Y; an empty field gives the fallback date; a text that is not a
\* date gives the fallback date, never an invalid date
C13_DateAlwaysValid ==
    FieldParsed =>
        /\ WellFormedDate(DateResult)
        /\ Falsy(DateField) => DateResult = FallbackDate
        /\ (~Falsy(DateField) /\ IsMonthDayYear(DateField)) =>
              LET p == split(trim(DateField), "/")
              IN  DateResult = CalendarDate(parseIntDigits(p[3]), parseIntDigits(p[1]),
                                            parseIntDigits(p[2]))
        /\ (~Falsy(DateField) /\ \A k \in 1..Len(DateField) : ~IsDigit(DateField[k])) =>
              DateResult = FallbackDate

\* ---- coordinators ----

\* the row of a response with several cells replaced (cells: column -> value)
fieldsRow(response, cells) ==
    LET keyOf(column) == Columns[CHOOSE k \in 1..Len(Columns) : Columns[k][2] = column][1]
        row == directRow(response)
        gone == {keyOf(c) : c \in {x \in DOMAIN cells : cells[x] = Undefined}}
    IN  [h \in (DOMAIN row) \ gone |->
            IF \E c \in DOMAIN cells : keyOf(c) = h
            THEN cells[CHOOSE c \in DOMAIN cells : keyOf(c) = h]
            ELSE row[h]]

CoordNameTokens ==
    { <<"A","s","h","a">>, <<"R","a","v","i"," ">>, <<"S","a","n","d","e","e","p">>, <<"A","n","a","n","d">>, <<" ","a","n","d"," ">>, <<" ","A","N","D"," ">>, <<","," ">>,
      <<"&">>, <<";">>, <<"A","s","h","a",","," ">>, <<"M","e","e","r","a"," ","&"," ">> }

CoordNameTexts == TextsOf(CoordNameTokens, MaxTokens) \cup {Undefined}

CoordPhoneTexts == { Undefined, <<"1","1","1">>, <<"1","1","1",","," ",";","2","2","2">> }

CoordEmailTexts == { <<>>, <<"a","@","x",".","i","n"," ","&"," ","b","@","x",".","i","n">> }

InitCoordinators ==
    FieldInit({fieldsRow(RowQuiz, [coordName |-> n, coordPhone |-> p, coordEmail |-> e]) :
                  n \in CoordNameTexts, p \in CoordPhoneTexts, e \in CoordEmailTexts})

SpecCoordinators == InitCoordinators /\ [][NextRows]_vars

CoordNameField == Prop(rows[1], K_coordName)

CoordPhoneField == Prop(rows[1], K_coordPhone)

CoordEmailField == Prop(rows[1], K_coordEmail)

CoordResult == uniqueEvents[1].coordinators

IsLetter(c) == \E k \in 1..26 : c = LowerLetters[k] \/ c = UpperLetters[k]

\* the letters a, n, d (in any case) start at position k of text
AndAt(text, k) == k + 2 <= Len(text) /\ toLowerCase(SubSeq(text, k, k + 2)) = S_and

\* ... and stand there as a word of their own
StandaloneAndAt(text, k) ==
    /\ AndAt(text, k)
    /\ k = 1 \/ ~IsLetter(text[k - 1])
    /\ k + 3 > Len(text) \/ ~IsLetter(text[k + 3])

\* C14: a name field without comma, ampersand, semicolon and without the
\* standalone word 'and' yields a single coordinator carrying the whole name,
\* also when the letters 'and' occur inside a word
C14_AndInsideWord ==
    ( /\ FieldParsed
      /\ ~Falsy(CoordNameField)
      /\ trim(CoordNameField) # <<>>
      /\ \A k \in 1..Len(CoordNameField) :
            /\ CoordNameField[k] \notin {",", "&", ";"}
            /\ ~StandaloneAndAt(CoordNameField, k) )
    => /\ Len(CoordResult) = 1
       /\ CoordResult[1].name = trim(CoordNameField)

NonEmptyText(t) == t # <<>>

\* the trimmed, non-empty pieces of a text between the given positions
PiecesOutside(text, positions) ==
    LET p == piecesBetween(text, positions)
    IN  SelectSeq([k \in 1..Len(p) |-> trim(p[k])], NonEmptyText)

\* the names in a name field: what lies between commas, ampersands,
\* semicolons and the letters 'and'
ParsedNames(text) ==
    PiecesOutside(text,
        {k \in 1..Len(text) :
            \/ text[k] \in {",", "&", ";"}
            \/ \E a \in {k - 2, k - 1, k} : a >= 1 /\ AndAt(text, a)})

\* the entries of a phone or email field: what lies between commas,
\* ampersands and semicolons
ListedEntries(text) ==
    IF Falsy(text) THEN <<>>
    ELSE PiecesOutside(text, {k \in 1..Len(text) : text[k] \in {",", "&", ";"}})

\* C15: one entry per parsed name in source order, the first one 'head' and
\* the others 'coordinator', each with the phone and email of its position or
\* the empty string; an empty name field gives the empty list
C15_CoordinatorEntries ==
    FieldParsed =>
        LET names  == IF Falsy(CoordNameField) THEN <<>> ELSE ParsedNames(CoordNameField)
            phones == ListedEntries(CoordPhoneField)
            emails == ListedEntries(CoordEmailField)
        IN  /\ Len(CoordResult) = Len(names)
            /\ \A k \in 1..Len(names) :
                  /\ CoordResult[k].name = names[k]
                  /\ CoordResult[k].role = (IF k = 1 THEN "head" ELSE "coordinator")
                  /\ CoordResult[k].phone = (IF k <= Len(phones) THEN phones[k] ELSE <<>>)
                  /\ CoordResult[k].email = (IF k <= Len(emails) THEN emails[k] ELSE <<>>)

\* two names were parsed against one phone and two emails
C15_Witness ==
    /\ FieldParsed
    /\ Len(CoordResult) = 2
    /\ CoordResult[1] = [name |-> <<"A","s","h","a">>, phone |-> <<"1","1","1">>, email |-> <<"a","@","x",".","i","n">>,
                         role |-> "head"]
    /\ CoordResult[2] = [name |-> <<"R","a","v","i">>, phone |-> <<>>, email |-> <<"b","@","x",".","i","n">>,
                         role |-> "coordinator"]

\* ---- department ----

DepartmentTokens ==
    { <<"A","I","M","L">>, <<"c","s","e">>, <<"E","c","e">>, <<"m","e","c","h">>, <<"M","e","c","h","a","n","i","c","a","l">>, <<"C","I","V","I","L">>, <<"M","B","A">>,
      <<"c","o","m","m","o","n">>, <<" ">>, <<"A","p","p","l","i","e","d"," ","S","c","i","e","n","c","e">>, <<"P","h","y","s","i","c","s">>, <<"M","E","C","H">> }

DepartmentTexts == TextsOf(DepartmentTokens, MaxTokens) \cup {Undefined}

InitDepartment == FieldInit({fieldRow(RowQuiz, "department", t) : t \in DepartmentTexts})

SpecDepartment == InitDepartment /\ [][NextRows]_vars

DepartmentField == Prop(rows[1], K_department)

DepartmentResult == uniqueEvents[1].department

\* C16: normalizeDepartment returns a department of the fixed enumeration: the
\* alias-table value of the trimmed, uppercased field when the table maps it,
\* and Common for every other field, the empty one included
C16_DepartmentEnumeration ==
    FieldParsed =>
        LET key == IF Falsy(DepartmentField) THEN <<>>
                   ELSE toUpperCase(trim(DepartmentField))
        IN  /\ DepartmentResult \in
                  {AIML, CSE, ECE, Mech, Civil, MBA, <<"A","p","p","l","i","e","d"," ","S","c","i","e","n","c","e">>, Common}
            /\ \A e \in deptMap : key = e[1] => DepartmentResult = e[2]
            /\ (\A e \in deptMap : key # e[1]) => DepartmentResult = Common

\* an alias written in lower case after a blank was mapped
C16_Witness ==
    /\ FieldParsed
    /\ DepartmentField = <<" ">> \o <<"m","e","c","h">>
    /\ DepartmentResult = Mech

\* ---- category ----

CategoryTokens ==
    { <<"T","e","c","h","n","i","c","a","l">>, <<"t","e","c","h","n","i","c","a","l"," ">>, <<"N","o","n">>, <<"n","o","n","-">>, <<"N","O","N"," ">>, <<"C","u","l","t","u","r","a","l">>,
      <<"c","u","l","t","u","r","a","l"," ">>, <<" ">>, <<"f","u","n">>, <<"T","E","C","H","N","I","C","A","L">>, <<"N","o","n"," ","T","e","c","h","n","i","c","a","l">> }

CategoryTexts == TextsOf(CategoryTokens, MaxTokens) \cup {Undefined}

InitCategory == FieldInit({fieldRow(RowQuiz, "category", t) : t \in CategoryTexts})

SpecCategory == InitCategory /\ [][NextRows]_vars

CategoryField == Prop(rows[1], K_category)

CategoryResult == uniqueEvents[1].category

\* the field holds the word, in any letter case
Mentions(field, word) == ~Falsy(field) /\ includes(toLowerCase(field), word)

\* C17: normalizeCategory returns Technical for a field with 'technical' and
\* without 'non', else Non-Technical for a field with 'non', else Cultural for
\* a field with 'cultural', else Technical (the empty field included)
C17_CategoryPriority ==
    FieldParsed =>
        /\ CategoryResult \in {Technical, NonTechnical, Cultural}
        /\ CategoryResult =
              (IF Mentions(CategoryField, S_technical) /\ ~Mentions(CategoryField, S_non)
               THEN Technical
               ELSE IF Mentions(CategoryField, S_non) THEN NonTechnical
               ELSE IF Mentions(CategoryField, S_cultural) THEN Cultural
               ELSE Technical)

\* a field with both 'non' and 'cultural' was normalized
C17_Witness ==
    /\ FieldParsed
    /\ CategoryField = <<"N","O","N"," ">> \o <<"C","u","l","t","u","r","a","l">>
    /\ CategoryResult = NonTechnical

\* ---- slug ----

NameTokens ==
    { <<"R","o","b","o">>, <<" ","R","a","c","e">>, <<"R","o","b","o"," ","R","a","c","e">>, <<"-","-">>, <<"!">>, <<"3","D"," ">>, <<"É">>,
      <<"B","I","G","G"," ","B","O","S","S">>, <<"_">>, <<" ","&"," ">>, <<"a">> }

NameTexts == TextsOf(NameTokens, MaxTokens)

InitSlug == FieldInit({fieldRow(RowQuiz, "name", t) : t \in NameTexts})

SpecSlug == InitSlug /\ [][NextRows]_vars

\* the slug the seed endpoint derives: eventData.name.toLowerCase()
\* .replace(/[^a-z0-9]+/g, '-').replace(/(^-|-$)/g, '')
seedSlug(name) == stripEdgeHyphens(hyphenate(toLowerCase(name), 1))

RECURSIVE JoinWith(_, _)
JoinWith(pieces, sep) ==
    IF pieces = <<>> THEN <<>>
    ELSE IF Len(pieces) = 1 THEN pieces[1]
    ELSE pieces[1] \o sep \o JoinWith(Tail(pieces), sep)

\* the runs of a-z and 0-9 of the lowercased name, joined by single hyphens
HyphenatedRuns(name) ==
    LET low  == toLowerCase(name)
        runs == SelectSeq(piecesBetween(low, {k \in 1..Len(low) : ~IsSlugChar(low[k])}),
                          NonEmptyText)
    IN  JoinWith(runs, <<"-">>)

\* C18: the slug is the lowercased name with every run of other characters
\* turned into one hyphen and the hyphens at both ends removed: it holds only
\* a-z, 0-9 and single interior hyphens, the slug of a slug is that slug, and
\* the seed endpoint derives the same slug from the same name
C18_SlugOfName ==
    FieldParsed =>
        LET name == uniqueEvents[1].name
            slug == uniqueEvents[1].slug
        IN  /\ slug = HyphenatedRuns(name)
            /\ \A k \in 1..Len(slug) : IsSlugChar(slug[k]) \/ slug[k] = "-"
            /\ \A k \in 1..Len(slug) :
                  slug[k] = "-" => /\ k > 1 /\ k < Len(slug)
                                   /\ slug[k + 1] # "-"
            /\ slugOf(slug) = slug
            /\ seedSlug(name) = slug

\* a name that ends in a run of other characters was turned into its slug
C18_Witness ==
    /\ FieldParsed
    /\ uniqueEvents[1].name = <<"B","I","G","G"," ","B","O","S","S"," ","&">>
    /\ uniqueEvents[1].slug = <<"b","i","g","g","-","b","o","s","s">>

\* ---- prizes ----

PrizeTokens ==
    { <<"1","s","t"," ",":"," ","1","5","0","0","r","s"," ","\n">>, <<"2","n","d"," ",":"," ","1","0","0","0","r","s"," ">>, <<"1","S","T"," ","₹">>, <<"5","0","0">>, <<"3","r","d">>, <<" ","R","s"," ">>,
      <<"r">>, <<":">>, <<"2","n","d"," ","p","l","a","c","e"," ">>, <<"F","i","r","s","t"," ","5","0","0","0"," ">>, <<"3","R","D",":","2","5","0">> }

PrizeTexts == TextsOf(PrizeTokens, MaxTokens) \cup {Undefined}

InitPrizes == FieldInit({fieldRow(RowQuiz, "prizes", t) : t \in PrizeTexts})

SpecPrizes == InitPrizes /\ [][NextRows]_vars

PrizeField == Prop(rows[1], K_prizes)

PrizeResult == uniqueEvents[1].prizes

\* the digits that follow a tier label in the field: after the label come
\* optional white space, an optional colon, optional white space, an optional
\* run of the characters of the currency class (the rupee sign, r, s), optional
\* white space, then the digits
TierDigits(field, label) ==
    IF Falsy(field) THEN <<>> ELSE labelNumber(field, label, PrizeSymbols)

PrizeTiers == { <<"first", S_1st>>, <<"second", S_2nd>>, <<"third", S_3rd>> }

\* C19: the keys of the result are among first, second, third; a key is there
\* exactly when its label is followed by digits in the field, its value is
\* the rupee sign and those digits, and an unmatched tier has no key
C19_PrizeTiers ==
    FieldParsed =>
        /\ DOMAIN PrizeResult \subseteq {"first", "second", "third"}
        /\ \A t \in PrizeTiers :
              /\ (t[1] \in DOMAIN PrizeResult) <=> (TierDigits(PrizeField, t[2]) # <<>>)
              /\ (t[1] \in DOMAIN PrizeResult) =>
                    PrizeResult[t[1]] = <<"₹">> \o TierDigits(PrizeField, t[2])

\* the form's own example was parsed: two tiers, no third
C19_Witness ==
    /\ FieldParsed
    /\ PrizeField = <<"1","s","t"," ",":"," ","1","5","0","0","r","s"," ","\n">> \o <<"2","n","d"," ",":"," ","1","0","0","0","r","s"," ">>
    /\ DOMAIN PrizeResult = {"first", "second"}
    /\ PrizeResult["first"] = <<"₹","1","5","0","0">>
    /\ PrizeResult["second"] = <<"₹","1","0","0","0">>

\* ---- registration fee and maximum team slots ----

NumberTokens ==
    { <<"0">>, <<"1","0","0">>, <<"R","s"," ">>, <<"f","r","e","e">>, <<"-">>, <<"5","0">>, <<" ","p","e","r"," ","t","e","a","m">>, <<"0","0","7">>,
      <<".">>, <<"₹">>, <<" ">> }

NumberTexts == TextsOf(NumberTokens, MaxTokens) \cup {Undefined}

InitNumbers ==
    FieldInit({fieldRow(RowQuiz, "fee", t) : t \in NumberTexts}
              \cup {fieldRow(RowQuiz, "slots", t) : t \in NumberTexts})

SpecNumbers == InitNumbers /\ [][NextRows]_vars

FeeField == Prop(rows[1], K_fee)

SlotsField == Prop(rows[1], K_maxSlots)

\* the value of the first run of digits of a field, or the default
FirstNumberOr(field, default) ==
    IF Falsy(field) \/ firstDigitRun(field) = <<>> THEN default
    ELSE parseIntDigits(firstDigitRun(field))

\* C20: registrationFee is the value of the first run of digits of the fee
\* field, or 0, and never negative; maxParticipants is the value of the first
\* run of digits of its field, or 100, and always at least 1
C20_FeeAndSlots ==
    FieldParsed =>
        /\ uniqueEvents[1].registrationFee = FirstNumberOr(FeeField, 0)
        /\ uniqueEvents[1].registrationFee >= 0
        /\ uniqueEvents[1].maxParticipants = FirstNumberOr(SlotsField, 100)
        /\ uniqueEvents[1].maxParticipants >= 1


(***************************************************************************)
(* parseCSV on its own: the file holds a text put together from cells,     *)
(* commas, quotes, blanks and line breaks.                                 *)
(***************************************************************************)

MaxCsvTokens == 5

CsvTokens == { <<"a">>, <<"\"","b",",","c","\"">>, <<",">>, <<"\"">>, <<"\n">>, <<" ">> }

CsvTexts == TextsOf(CsvTokens, MaxCsvTokens)

InitCSV ==
    /\ csvFile \in {[style |-> "text", text |-> t] : t \in CsvTexts}
    /\ Events = EmptyCollection
    /\ pc = "connected"
    /\ run = 1
    /\ rows = <<>>
    /\ uniqueEvents = <<>>
    /\ finalEvents = <<>>
    /\ eventIndex = 0
    /\ successCount = 0
    /\ errorCount = 0
    /\ deptCounts = <<>>
    /\ console = <<>>
    /\ faults = 0
    /\ parseCalls = 0
    /\ rejected = <<>>
    /\ startEvents = Events
    /\ history = <<>>
    /\ ServerIdle

NextCSV == ReadCSV

SpecCSV == InitCSV /\ [][NextCSV]_vars

CsvLines == split(readFileSync(csvFile), "\n")

\* the numbers of the non-blank lines after the first, in line order
DataLineNumbers ==
    LET S == {k \in 2..Len(CsvLines) : trim(CsvLines[k]) # <<>>}
        RECURSIVE up(_)
        up(T) == IF T = {} THEN <<>>
                 ELSE LET k == CHOOSE x \in T : \A y \in T : x <= y
                      IN  <<k>> \o up(T \ {k})
    IN  up(S)

\* the fields of a line: a comma between an odd and an even quote character
\* does not separate, the quote characters are not part of a field, and a
\* field is taken without the white space around it
FieldsOf(line) ==
    LET quotes(k) == Cardinality({m \in 1..k : line[m] = "\""})
        commas    == {k \in 1..Len(line) : line[k] = "," /\ quotes(k) % 2 = 0}
        cells     == piecesBetween(line, commas)
        Kept(c)   == c # "\""
    IN  [n \in 1..Len(cells) |-> trim(SelectSeq(cells[n], Kept))]

\* the header names of the first line
HeaderNames == FieldsOf(CsvLines[1])

CsvRead == pc = "rows" /\ parseCalls = 1

\* C21: parseCSV returns one mapping per non-blank line after the first, in
\* line order; each mapping has exactly the header names of the first line
\* as keys; the value under the i-th header is the i-th field of the line,
\* and the empty string when the line has fewer fields than headers
C21_ParseCSVContract ==
    CsvRead =>
        /\ Len(rows) = Len(DataLineNumbers)
        /\ \A n \in 1..Len(rows) :
              LET fields == FieldsOf(CsvLines[DataLineNumbers[n]])
              IN  /\ DOMAIN rows[n] = {HeaderNames[i] : i \in 1..Len(HeaderNames)}
                  /\ \A i \in 1..Len(HeaderNames) :
                        rows[n][HeaderNames[i]] =
                            IF i <= Len(fields) THEN fields[i] ELSE <<>>

\* the header line names every column once and carries no quote character
PlainHeaderLine ==
    /\ \A k \in 1..Len(CsvLines[1]) : CsvLines[1][k] # "\""
    /\ \A i, j \in 1..Len(HeaderNames) : i # j => HeaderNames[i] # HeaderNames[j]

\* what remains true of every file: the lines and the fields are as stated,
\* and so are the keys when the header line is a plain one
C21_PlainHeaderContract == PlainHeaderLine => C21_ParseCSVContract

(***************************************************************************)
(* The order of the two loops of one run                                   *)
(***************************************************************************)

\* an upsert is issued by the step: the loop over finalEvents moves on by one
UpsertIssued == pc = "upserts" /\ eventIndex' = eventIndex + 1

\* every kept row has its entry in the Map
AllRowsPlaced ==
    \A k \in KeptRows :
        \E e \in 1..Len(uniqueEvents) : uniqueEvents[e].name = trim(NameField(rows[k]))

DistinctTargets(log) == \A a, b \in 1..Len(log) : a # b => log[a].name # log[b].name

\* C23: within one run an upsert is issued only when every row has been
\* normalized and placed in the Map, which the upserts then read unchanged,
\* and no two upserts of the run target the same event name
C23_UpsertsAfterRowLoop ==
    [][UpsertIssued =>
           /\ parseCalls = 1
           /\ AllRowsPlaced
           /\ finalEvents = uniqueEvents
           /\ UNCHANGED <<rows, uniqueEvents, finalEvents>>
           /\ DistinctTargets(SelectSeq(console', IsUpsertLine))]_vars

\* both records of a sheet of two events have been upserted
C23_Witness ==
    /\ pc = "upserts"
    /\ Len(rows) = 2
    /\ Len(finalEvents) = 2
    /\ Len(UpsertLog) = 2
    /\ UpsertLog[1].name # UpsertLog[2].name

(***************************************************************************)
(* The upsert loop against a store that enforces its unique indexes.  The  *)
(* records are given, already deduplicated by name, in any order.          *)
(***************************************************************************)

MaxRecords == 3

\* Event.create in the seed route can be rejected with code 11000: the
\* event collection has a unique index, on the name, or on the name and the
\* slug
EventIndexes == { {"name"}, {"name", "slug"} }

\* E11000: another document already holds the slug of the record
duplicateKey(coll, event, idx) ==
    /\ "slug" \in idx
    /\ \E n \in DOMAIN coll : n # event.name /\ coll[n].slug = event.slug

OrderNames == { S_RoboRace, <<"R","o","b","o"," ","R","a","c","e","!">>, <<"r","o","b","o"," ","r","a","c","e">>, S_Quiz }

OrderRecords == { eventOf(directRow([RowQuiz EXCEPT !.name = n])) : n \in OrderNames }

InitOrder ==
    /\ csvFile = NoFile
    /\ Events \in InitialCollections
    /\ pc = "upserts"
    /\ run = 1
    /\ rows = <<>>
    /\ finalEvents \in SheetsUpTo(OrderRecords, MaxRecords)
    /\ uniqueEvents = finalEvents
    /\ eventIndex = 1
    /\ successCount = 0
    /\ errorCount = 0
    /\ deptCounts = <<>>
    /\ console = <<>>
    /\ faults = 0
    /\ parseCalls = 1
    /\ rejected = <<>>
    /\ startEvents = Events
    /\ history = <<>>
    /\ ServerEmpty
    /\ indexes \in EventIndexes

\* one pass of for (const event of finalEvents): the store takes the record
UpsertStored ==
    /\ pc = "upserts"
    /\ eventIndex <= Len(finalEvents)
    /\ ~duplicateKey(Events, finalEvents[eventIndex], indexes)
    /\ Events' = findOneAndUpdate(Events, finalEvents[eventIndex])
    /\ successCount' = successCount + 1
    /\ console' = Append(console, [kind |-> "imported",
                                   name |-> finalEvents[eventIndex].name])
    /\ eventIndex' = eventIndex + 1
    /\ UNCHANGED <<csvFile, pc, run, rows, uniqueEvents, finalEvents, errorCount,
                   deptCounts, faults, parseCalls, rejected, startEvents, history>>
    /\ UNCHANGED serverVars

\* one pass of for (const event of finalEvents): the store rejects the record
\* for its slug, and the catch counts the error
UpsertRejected ==
    /\ pc = "upserts"
    /\ eventIndex <= Len(finalEvents)
    /\ duplicateKey(Events, finalEvents[eventIndex], indexes)
    /\ rejected' = Append(rejected, [name    |-> finalEvents[eventIndex].name,
                                    message |-> "E11000 duplicate key error"])
    /\ console' = Append(console, [kind    |-> "failed",
                                  name    |-> finalEvents[eventIndex].name,
                                  message |-> "E11000 duplicate key error"])
    /\ errorCount' = errorCount + 1
    /\ eventIndex' = eventIndex + 1
    /\ UNCHANGED <<csvFile, Events, pc, run, rows, uniqueEvents, finalEvents,
                   successCount, deptCounts, faults, parseCalls, startEvents, history>>
    /\ UNCHANGED serverVars

NextOrder ==
    \/ UpsertStored
    \/ UpsertRejected
    \/ PrintSummary

SpecOrder == InitOrder /\ [][NextOrder]_vars

\* what the upserts of the given records, one after the other, leave behind
RECURSIVE storeAll(_, _, _)
storeAll(outcome, events, idx) ==
    IF events = <<>> THEN outcome
    ELSE storeAll(IF duplicateKey(outcome.stored, Head(events), idx)
                  THEN [outcome EXCEPT !.failed = @ + 1]
                  ELSE [stored    |-> findOneAndUpdate(outcome.stored, Head(events)),
                        succeeded |-> outcome.succeeded + 1,
                        failed    |-> outcome.failed],
                  Tail(events), idx)

\* the orders in which the records of a list can be upserted
OrdersOf(events) ==
    {p \in SheetsUpTo({events[k] : k \in 1..Len(events)}, Len(events)) :
        Len(p) = Len(events)}

OrderOutcome == [stored |-> Events, succeeded |-> successCount, failed |-> errorCount]

\* C24: whatever the order in which the deduplicated records of one import
\* are upserted, names that share a slug included, the import ends in the
\* same stored records and the same success and error counts
C24_OrderDoesNotMatter ==
    (pc = "done") =>
        \A p \in OrdersOf(finalEvents) :
            storeAll([stored |-> startEvents, succeeded |-> 0, failed |-> 0], p, indexes)
                = OrderOutcome

\* what remains true: the order does not matter to a store whose only unique
\* index on events is the name, nor among records with different slugs
C24_OrderUnderNameIndex ==
    (indexes = {"name"}
       \/ \A a, b \in 1..Len(finalEvents) :
             a # b => finalEvents[a].slug # finalEvents[b].slug)
        => C24_OrderDoesNotMatter

(***************************************************************************)
(* The admin router.  A request is one step: the two middlewares, then the *)
(* handler to its response.                                                *)
(***************************************************************************)

\* the collections the admin routes work on
stores == <<Users, Events, Registrations, Payments, Notifications, Settings>>

UserIds == {"u1", "u2"}

\* who sends a request: the bearer of a user's token, or nobody
Callers == UserIds \cup {"anonymous"}

\* values of a request body, with the type typeof gives them
JsUndefined == [type |-> "undefined", text |-> ""]

JsString(s) == [type |-> "string", text |-> s]

JsBoolean(b) == [type |-> "boolean", text |-> IF b THEN "true" ELSE "false"]

\* !value
Not(value) ==
    \/ value.type = "undefined"
    \/ value.type = "string" /\ value.text = ""
    \/ value.type = "boolean" /\ value.text = "false"

\* protect: the token names a user that exists, who becomes req.user
protect(caller) == caller \in DOMAIN Users

\* authorize('admin'): req.user has one of the roles given
authorize(caller, role) == Users[caller].role = role

IsAdmin(caller) == protect(caller) /\ authorize(caller, "admin")

\* res.status(status).json(body)
Respond(route, caller, status, body) ==
    res' = [route |-> route, caller |-> caller, status |-> status, body |-> body]

Failure(message) == [success |-> FALSE, message |-> message]

\* what the two middlewares answer to a caller they stop
Refused(route, caller) ==
    /\ ~IsAdmin(caller)
    /\ IF ~protect(caller)
       THEN Respond(route, caller, 401, Failure("Not authorized to access this route"))
       ELSE Respond(route, caller, 403, Failure("User role is not authorized to access this route"))
    /\ UNCHANGED <<stores, scheduledTime, toggled, timerWrote>>

\* what a request carries: the handler of a caller the middlewares stop never
\* reads it, so one value stands for all
Sent(caller, values) == IF IsAdmin(caller) THEN values ELSE {CHOOSE v \in values : TRUE}

\* .select('-password')
withoutPassword(user) == [f \in (DOMAIN user) \ {"password"} |-> user[f]]

RECURSIVE sumOf(_, _)
sumOf(docs, field) ==
    IF docs = {} THEN 0
    ELSE LET d == CHOOSE x \in docs : TRUE
         IN  d[field] + sumOf(docs \ {d}, field)

\* Registration.aggregate([$group by event, $lookup events, $unwind, $project])
eventStats ==
    { [eventName     |-> e,
       registrations |-> Cardinality({r \in Registrations : r.event = e}),
       revenue       |-> sumOf({r \in Registrations : r.event = e}, "amount")] :
        e \in {r.event : r \in Registrations} \cap DOMAIN Events }

\* GET /dashboard
dashboard(caller) ==
    \/ Refused("GET /dashboard", caller)
    \/ /\ IsAdmin(caller)
       /\ LET captured == {p \in Payments : p.status = "captured"}
          IN  Respond("GET /dashboard", caller, 200,
                 [success |-> TRUE,
                  stats   |-> [totalUsers         |-> Cardinality(DOMAIN Users),
                               totalEvents        |-> Cardinality(DOMAIN Events),
                               totalRegistrations |-> Cardinality(Registrations),
                               totalPayments      |-> Cardinality(captured),
                               totalRevenue       |-> sumOf(captured, "amount"),
                               recentPayments     |->
                                   Cardinality({p \in Payments : p.recent})],
                  recentRegistrations |-> Registrations,
                  eventStats          |-> eventStats])
       /\ UNCHANGED <<stores, scheduledTime, toggled, timerWrote>>

GetDashboard ==
    /\ \E caller \in Callers : dashboard(caller)
    /\ UNCHANGED <<csvFile, pc, run, locals, console, faults, startEvents, history,
                   indexes, mail>>

\* a route that answers anyone
users_unguarded(caller, role) ==
    /\ LET found == {id \in DOMAIN Users : role = "" \/ Users[id].role = role}
       IN  Respond("GET /users", caller, 200,
              [success |-> TRUE,
               count   |-> Cardinality(found),
               users   |-> [id \in found |-> withoutPassword(Users[id])]])
    /\ UNCHANGED <<stores, scheduledTime, toggled, timerWrote>>

\* GET /users?role=
users(caller, role) ==
    \/ Refused("GET /users", caller)
    \/ /\ IsAdmin(caller)
       /\ LET found == {id \in DOMAIN Users : role = "" \/ Users[id].role = role}
          IN  Respond("GET /users", caller, 200,
                 [success |-> TRUE,
                  count   |-> Cardinality(found),
                  users   |-> [id \in found |-> withoutPassword(Users[id])]])
       /\ UNCHANGED <<stores, scheduledTime, toggled, timerWrote>>

GetUsers ==
    /\ \E caller \in Callers :
          \E role \in Sent(caller, {"", "admin", "user"}) : users(caller, role)
    /\ UNCHANGED <<csvFile, pc, run, locals, console, faults, startEvents, history,
                   indexes, mail>>

\* the role a request body may carry
RequestedRoles == {"user", "admin", "owner"}

\* PUT /users/:id/role
userRole(caller, id, role) ==
    \/ Refused("PUT /users/:id/role", caller)
    \/ /\ IsAdmin(caller)
       /\ IF role \notin {"user", "admin"}
          THEN /\ Respond("PUT /users/:id/role", caller, 400, Failure("Invalid role"))
               /\ UNCHANGED Users
          ELSE IF id \in DOMAIN Users
          THEN /\ Users' = [Users EXCEPT ![id].role = role]
               /\ Respond("PUT /users/:id/role", caller, 200,
                     [success |-> TRUE, message |-> "User role updated",
                      user    |-> {withoutPassword(Users'[id])}])
          ELSE /\ Respond("PUT /users/:id/role", caller, 200,
                     [success |-> TRUE, message |-> "User role updated", user |-> {}])
               /\ UNCHANGED Users
       /\ UNCHANGED <<Events, Registrations, Payments, Notifications, Settings,
                      scheduledTime, toggled, timerWrote>>

PutUserRole ==
    /\ \E caller \in Callers :
          \E id \in Sent(caller, UserIds \cup {"u9"}), role \in Sent(caller, RequestedRoles) :
              userRole(caller, id, role)
    /\ UNCHANGED <<csvFile, pc, run, locals, console, faults, startEvents, history,
                   indexes, mail>>

\* admin.matchPassword(confirmPassword): the entered text is the password
matchPassword(user, entered) == entered.type = "string" /\ user.password = entered.text

\* User.deleteMany({}) in place of the filter on the role
deleteNonAdmins_everyone(coll) == [id \in {} |-> coll[id]]

\* User.deleteMany({ role: { $ne: 'admin' } })
deleteNonAdmins(coll) ==
    [id \in {x \in DOMAIN coll : coll[x].role = "admin"} |-> coll[id]]

\* the deletions of clear-database, one after the other, that come before the
\* call numbered first
clearUpTo(first) ==
    /\ Notifications' = IF first > 1 THEN {} ELSE Notifications
    /\ Payments' = IF first > 2 THEN {} ELSE Payments
    /\ Registrations' = IF first > 3 THEN {} ELSE Registrations
    /\ Events' = IF first > 4 THEN EmptyCollection ELSE Events
    /\ Users' = IF first > 5 THEN deleteNonAdmins(Users) ELSE Users

\* what an admin may send as confirmPassword
ConfirmPasswords(caller) ==
    {JsUndefined, JsString(""), JsString("wrong"), JsString(Users[caller].password)}

\* the body of the answer to a clear-database that went through
cleared(remaining) ==
    [success |-> TRUE,
     message |-> "Database cleared successfully! Only admin users remain.",
     deletedCounts |->
        [notifications |-> Cardinality(Notifications),
         payments      |-> Cardinality(Payments),
         registrations |-> Cardinality(Registrations),
         events        |-> Cardinality(DOMAIN Events),
         users         |-> Cardinality(DOMAIN Users) - Cardinality(DOMAIN remaining)],
     remainingAdmins |->
        Cardinality({id \in DOMAIN remaining : remaining[id].role = "admin"})]

\* a handler that deletes before it looks at the password
clearDatabase_deletesFirst(caller) ==
    \/ Refused("POST /clear-database", caller)
    \/ /\ IsAdmin(caller)
       /\ clearUpTo(6)
       /\ \E confirmPassword \in ConfirmPasswords(caller) :
             IF Not(confirmPassword)
             THEN Respond("POST /clear-database", caller, 400,
                     Failure("Please provide your password to confirm this action"))
             ELSE IF ~matchPassword(Users[caller], confirmPassword)
             THEN Respond("POST /clear-database", caller, 401,
                     Failure("Incorrect password. Database clear operation cancelled."))
             ELSE Respond("POST /clear-database", caller, 200, cleared(Users'))
       /\ UNCHANGED <<Settings, scheduledTime, toggled, timerWrote>>

\* POST /clear-database; rejectedAt is the call the database rejects: one of
\* the five deletions, the count of the admins (6), or none (0)
clearDatabase(caller) ==
    \/ Refused("POST /clear-database", caller)
    \/ /\ IsAdmin(caller)
       /\ \E confirmPassword \in ConfirmPasswords(caller) :
             IF Not(confirmPassword)
             THEN /\ Respond("POST /clear-database", caller, 400,
                        Failure("Please provide your password to confirm this action"))
                  /\ UNCHANGED <<Users, Events, Registrations, Payments, Notifications>>
             ELSE IF ~matchPassword(Users[caller], confirmPassword)
             THEN /\ Respond("POST /clear-database", caller, 401,
                        Failure("Incorrect password. Database clear operation cancelled."))
                  /\ UNCHANGED <<Users, Events, Registrations, Payments, Notifications>>
             ELSE \E rejectedAt \in 0..6 :
                     IF rejectedAt # 0
                     THEN /\ clearUpTo(rejectedAt)
                          /\ Respond("POST /clear-database", caller, 500,
                                Failure("database error"))
                     ELSE /\ clearUpTo(6)
                          /\ Respond("POST /clear-database", caller, 200, cleared(Users'))
       /\ UNCHANGED <<Settings, scheduledTime, toggled, timerWrote>>

PostClearDatabase ==
    /\ \E caller \in Callers : clearDatabase(caller)
    /\ UNCHANGED <<csvFile, pc, run, locals, console, faults, startEvents, history,
                   indexes, mail>>

(***************************************************************************)
(* The settings routes.  Settings.get and Settings.set are the statics of  *)
(* the key-value settings store.                                           *)
(***************************************************************************)

RegistrationKey == "user_registration_disabled"

SettingKeys == {RegistrationKey, "site_title"}

\* Settings.get(key, defaultValue)
Settings_get(coll, key, defaultValue) ==
    IF key \in DOMAIN coll THEN coll[key].value ELSE defaultValue

\* Settings.set(key, value, options): an upsert of the document of the key
Settings_set(coll, key, value, options) ==
    [k \in (DOMAIN coll) \cup {key} |->
        IF k = key
        THEN [key |-> key, value |-> value, category |-> options.category,
              isPublic |-> options.isPublic, updatedBy |-> options.updatedBy]
        ELSE coll[k]]

\* what the key's ghost becomes when a route other than PUT
\* /registration-control writes or deletes the key
Overwritten(key) == IF key = RegistrationKey THEN "unknown" ELSE toggled

\* GET /settings
settings(caller) ==
    \/ Refused("GET /settings", caller)
    \/ /\ IsAdmin(caller)
       /\ Respond("GET /settings", caller, 200,
             [success |-> TRUE, count |-> Cardinality(DOMAIN Settings),
              settings |-> Settings])
       /\ UNCHANGED <<stores, scheduledTime, toggled, timerWrote>>

GetSettings ==
    /\ \E caller \in Callers : settings(caller)
    /\ UNCHANGED <<csvFile, pc, run, locals, console, faults, startEvents, history,
                   indexes, mail>>

\* GET /settings/:key
settingByKey(caller, key) ==
    \/ Refused("GET /settings/:key", caller)
    \/ /\ IsAdmin(caller)
       /\ IF key \notin DOMAIN Settings
          THEN Respond("GET /settings/:key", caller, 404, Failure("Setting not found"))
          ELSE Respond("GET /settings/:key", caller, 200,
                  [success |-> TRUE, setting |-> Settings[key]])
       /\ UNCHANGED <<stores, scheduledTime, toggled, timerWrote>>

GetSettingByKey ==
    /\ \E caller \in Callers :
          \E key \in Sent(caller, SettingKeys) : settingByKey(caller, key)
    /\ UNCHANGED <<csvFile, pc, run, locals, console, faults, startEvents, history,
                   indexes, mail>>

\* the values a request may carry for a setting
SettingValues == {JsUndefined, JsString(""), JsString("true"), JsBoolean(FALSE)}

\* PUT /settings/:key
putSetting(caller, key, value) ==
    \/ Refused("PUT /settings/:key", caller)
    \/ /\ IsAdmin(caller)
       /\ IF Not(value)
          THEN /\ Respond("PUT /settings/:key", caller, 400, Failure("Value is required"))
               /\ UNCHANGED <<Settings, toggled, timerWrote>>
          ELSE /\ Settings' = Settings_set(Settings, key, value,
                                 [category |-> "general", isPublic |-> FALSE,
                                  updatedBy |-> caller])
               /\ toggled' = Overwritten(key)
               /\ timerWrote' = (key # RegistrationKey /\ timerWrote)
               /\ Respond("PUT /settings/:key", caller, 200,
                     [success |-> TRUE, message |-> "Setting updated successfully",
                      setting |-> Settings'[key]])
       /\ UNCHANGED <<Users, Events, Registrations, Payments, Notifications,
                      scheduledTime>>

PutSetting ==
    /\ \E caller \in Callers :
          \E key \in Sent(caller, SettingKeys), value \in Sent(caller, SettingValues) :
              putSetting(caller, key, value)
    /\ UNCHANGED <<csvFile, pc, run, locals, console, faults, startEvents, history,
                   indexes, mail>>

\* POST /settings; an absent key is the empty text
postSetting(caller, key, value) ==
    \/ Refused("POST /settings", caller)
    \/ /\ IsAdmin(caller)
       /\ IF key = "" \/ Not(value)
          THEN /\ Respond("POST /settings", caller, 400,
                     Failure("Key and value are required"))
               /\ UNCHANGED <<Settings, toggled, timerWrote>>
          ELSE /\ Settings' = Settings_set(Settings, key, value,
                                 [category |-> "general", isPublic |-> FALSE,
                                  updatedBy |-> caller])
               /\ toggled' = Overwritten(key)
               /\ timerWrote' = (key # RegistrationKey /\ timerWrote)
               /\ Respond("POST /settings", caller, 201,
                     [success |-> TRUE, message |-> "Setting created successfully",
                      setting |-> Settings'[key]])
       /\ UNCHANGED <<Users, Events, Registrations, Payments, Notifications,
                      scheduledTime>>

PostSetting ==
    /\ \E caller \in Callers :
          \E key \in Sent(caller, SettingKeys \cup {""}), value \in Sent(caller, SettingValues) :
              postSetting(caller, key, value)
    /\ UNCHANGED <<csvFile, pc, run, locals, console, faults, startEvents, history,
                   indexes, mail>>

\* DELETE /settings/:key
deleteSetting(caller, key) ==
    \/ Refused("DELETE /settings/:key", caller)
    \/ /\ IsAdmin(caller)
       /\ IF key \notin DOMAIN Settings
          THEN /\ Respond("DELETE /settings/:key", caller, 404,
                     Failure("Setting not found"))
               /\ UNCHANGED <<Settings, toggled, timerWrote>>
          ELSE /\ Settings' = [k \in (DOMAIN Settings) \ {key} |-> Settings[k]]
               /\ toggled' = Overwritten(key)
               /\ timerWrote' = (key # RegistrationKey /\ timerWrote)
               /\ Respond("DELETE /settings/:key", caller, 200,
                     [success |-> TRUE, message |-> "Setting deleted successfully"])
       /\ UNCHANGED <<Users, Events, Registrations, Payments, Notifications,
                      scheduledTime>>

DeleteSetting ==
    /\ \E caller \in Callers :
          \E key \in Sent(caller, SettingKeys) : deleteSetting(caller, key)
    /\ UNCHANGED <<csvFile, pc, run, locals, console, faults, startEvents, history,
                   indexes, mail>>

\* a route that reports the registration as open whatever is stored
registrationControl_alwaysOpen(caller) ==
    \/ Refused("GET /registration-control", caller)
    \/ /\ IsAdmin(caller)
       /\ Respond("GET /registration-control", caller, 200,
             [success |-> TRUE, userRegistrationDisabled |-> FALSE])
       /\ UNCHANGED <<stores, scheduledTime, toggled, timerWrote>>

\* GET /registration-control
registrationControl(caller) ==
    \/ Refused("GET /registration-control", caller)
    \/ /\ IsAdmin(caller)
       /\ LET setting == Settings_get(Settings, RegistrationKey, JsString("false"))
              isDisabled == setting = JsString("true")
          IN  Respond("GET /registration-control", caller, 200,
                 [success |-> TRUE, userRegistrationDisabled |-> isDisabled])
       /\ UNCHANGED <<stores, scheduledTime, toggled, timerWrote>>

GetRegistrationControl ==
    /\ \E caller \in Callers : registrationControl(caller)
    /\ UNCHANGED <<csvFile, pc, run, locals, console, faults, startEvents, history,
                   indexes, mail>>

\* what a request may carry as disabled
DisabledValues == {JsBoolean(TRUE), JsBoolean(FALSE), JsString("true"), JsUndefined}

\* PUT /registration-control
putRegistrationControl(caller, disabled) ==
    \/ Refused("PUT /registration-control", caller)
    \/ /\ IsAdmin(caller)
       /\ IF disabled.type # "boolean"
          THEN /\ Respond("PUT /registration-control", caller, 400,
                     Failure("disabled field must be a boolean"))
               /\ UNCHANGED <<Settings, toggled, timerWrote>>
          ELSE /\ Settings' = Settings_set(Settings, RegistrationKey,
                                 JsString(disabled.text),
                                 [category |-> "general", isPublic |-> FALSE,
                                  updatedBy |-> caller])
               /\ toggled' = disabled.text
               /\ timerWrote' = FALSE
               /\ Respond("PUT /registration-control", caller, 200,
                     [success |-> TRUE,
                      message |-> IF disabled.text = "true"
                                  THEN "User registration disabled successfully"
                                  ELSE "User registration enabled successfully",
                      userRegistrationDisabled |-> (disabled.text = "true")])
       /\ UNCHANGED <<Users, Events, Registrations, Payments, Notifications,
                      scheduledTime>>

PutRegistrationControl ==
    /\ \E caller \in Callers :
          \E disabled \in Sent(caller, DisabledValues) :
              putRegistrationControl(caller, disabled)
    /\ UNCHANGED <<csvFile, pc, run, locals, console, faults, startEvents, history,
                   indexes, mail>>

\* GET /registration-auto-disable: registrationAutoDisable.getScheduledTime()
registrationAutoDisable(caller) ==
    \/ Refused("GET /registration-auto-disable", caller)
    \/ /\ IsAdmin(caller)
       /\ Respond("GET /registration-auto-disable", caller, 200,
             [success |-> TRUE, scheduledTime |-> scheduledTime])
       /\ UNCHANGED <<stores, scheduledTime, toggled, timerWrote>>

GetRegistrationAutoDisable ==
    /\ \E caller \in Callers : registrationAutoDisable(caller)
    /\ UNCHANGED <<csvFile, pc, run, locals, console, faults, startEvents, history,
                   indexes, mail>>

\* PUT /registration-auto-disable: an absent scheduledTime is the empty text;
\* registrationAutoDisable.updateScheduledTime(scheduledTime)
putRegistrationAutoDisable(caller, time) ==
    \/ Refused("PUT /registration-auto-disable", caller)
    \/ /\ IsAdmin(caller)
       /\ IF time = ""
          THEN /\ Respond("PUT /registration-auto-disable", caller, 400,
                     Failure("scheduledTime is required"))
               /\ UNCHANGED scheduledTime
          ELSE /\ scheduledTime' = time
               /\ Respond("PUT /registration-auto-disable", caller, 200,
                     [success |-> TRUE, message |-> "Scheduled time updated successfully",
                      scheduledTime |-> time])
       /\ UNCHANGED <<stores, toggled, timerWrote>>

PutRegistrationAutoDisable ==
    /\ \E caller \in Callers :
          \E time \in Sent(caller, {"", "2025-11-01T18:00"}) :
              putRegistrationAutoDisable(caller, time)
    /\ UNCHANGED <<csvFile, pc, run, locals, console, faults, startEvents, history,
                   indexes, mail>>

(***************************************************************************)
(* POST /seed-savishkar-events                                             *)
(***************************************************************************)

seedImages ==
    << "https://images.unsplash.com/photo-1540575467063-178a50c2df87?w=800",
       "https://images.unsplash.com/photo-1505373877841-8d25f7d46678?w=800",
       "https://images.unsplash.com/photo-1492684223066-81342ee5ff30?w=800",
       "https://images.unsplash.com/photo-1531482615713-2afd69097998?w=800",
       "https://images.unsplash.com/photo-1485827404703-89b55fcc595e?w=800",
       "https://images.unsplash.com/photo-1519389950473-47ba0277781c?w=800",
       "https://images.unsplash.com/photo-1504384308090-c894fdcc538d?w=800",
       "https://images.unsplash.com/photo-1523580494863-6f3031224c94?w=800",
       "https://images.unsplash.com/photo-1515187029135-18ee286d815b?w=800",
       "https://images.unsplash.com/photo-1499750310107-5fef28a66643?w=800",
       "https://images.unsplash.com/photo-1542831371-29b0f74f9713?w=800",
       "https://images.unsplash.com/photo-1517245386807-bb43f82c33c4?w=800",
       "https://images.unsplash.com/photo-1551818255-e6e10975bc17?w=800",
       "https://images.unsplash.com/photo-1511671782779-c97d3d27a1d4?w=800",
       "https://images.unsplash.com/photo-1509824227185-9c5a01ceba0d?w=800" >>

\* const event = { ...eventData, slug, image: dummyImages[i % length], ... }
\* for the i-th entry of eventsData, counted from 1
seedEvent(i, caller) ==
    LET eventData == eventsData[i]
        rest ==
          [ slug             |-> seedSlug(eventData.name),
            image            |-> seedImages[((i - 1) % Len(seedImages)) + 1],
            date             |-> DateFromString(<<"2","0","2","5","-","0","3","-","1","5">>),
            time             |-> S_10AM,
            venue            |-> Seed_venue,
            maxParticipants  |-> 100,
            currentParticipants |-> 0,
            rules            |-> <<"Valid ID card required",
                                   "Follow event coordinators instructions">>,
            eligibility      |-> <<"Open to all college students">>,
            prizes           |-> [first |-> Rupee(<<"1","5","0","0">>), second |-> Rupee(<<"1","0","0","0">>)],
            coordinators     |-> <<>>,
            isActive         |-> TRUE,
            status           |-> "upcoming",
            onlineRegistrationOpen |-> TRUE,
            isFeatured       |-> FALSE,
            createdBy        |-> caller ]
    IN  [f \in (DOMAIN eventData) \cup (DOMAIN rest) |->
            IF f \in DOMAIN rest THEN rest[f] ELSE eventData[f]]

\* Event.create(event) is rejected with code 11000: a document already holds
\* the name, or the slug when the slug is kept unique
alreadyExists(coll, event, idx) ==
    \/ event.name \in DOMAIN coll
    \/ "slug" \in idx /\ \E n \in DOMAIN coll : coll[n].slug = event.slug

\* the documents of the loop, but for the admin who asked for them
seedDocs == [i \in 1..Len(eventsData) |-> seedEvent(i, AdminId)]

\* for (let i = 0; i < eventsData.length; i++) { try { ... } catch { ... } }:
\* the entries up to the i-th whose Event.create was not rejected
RECURSIVE seedAdded(_, _, _)
seedAdded(coll, i, idx) ==
    IF i = 0 THEN {}
    ELSE LET before == seedAdded(coll, i - 1, idx)
             event  == seedDocs[i]
         IN  IF \/ alreadyExists(coll, event, idx)
                \/ \E j \in before : seedDocs[j].name = event.name
                \/ "slug" \in idx /\ \E j \in before : seedDocs[j].slug = event.slug
             THEN before
             ELSE before \cup {i}

\* errors.push(`${eventData.name}: Already exists`), in the order of the loop
seedErrors(added) ==
    LET Skipped(i) == i \notin added
        failed == SelectSeq([i \in 1..Len(eventsData) |-> i], Skipped)
    IN  [k \in 1..Len(failed) |->
            [name |-> eventsData[failed[k]].name, message |-> "Already exists"]]

seedSavishkarEvents(caller) ==
    \/ Refused("POST /seed-savishkar-events", caller)
    \/ /\ IsAdmin(caller)
       /\ LET added == seedAdded(Events, Len(eventsData), indexes)
          IN  /\ Events' =
                    [n \in (DOMAIN Events) \cup {eventsData[i].name : i \in added} |->
                        IF n \in DOMAIN Events THEN Events[n]
                        ELSE [seedDocs[CHOOSE i \in added : eventsData[i].name = n]
                                 EXCEPT !.createdBy = caller]]
              /\ Respond("POST /seed-savishkar-events", caller, 200,
                    [success |-> TRUE,
                     message |-> "Savishkar events seeded successfully!",
                     added   |-> Cardinality(added),
                     total   |-> Len(eventsData),
                     errors  |-> seedErrors(added)])
       /\ UNCHANGED <<Users, Registrations, Payments, Notifications, Settings,
                      scheduledTime, toggled, timerWrote>>

PostSeedSavishkarEvents ==
    /\ \E caller \in Callers : seedSavishkarEvents(caller)
    /\ UNCHANGED <<csvFile, pc, run, locals, console, faults, startEvents, history,
                   indexes, mail>>

(***************************************************************************)
(* The server with the routes that work on the users and the data          *)
(***************************************************************************)

\* u1 is an admin; u2 is a participant or a second admin
InitialUsers ==
    { [id \in UserIds |->
          [name |-> id, password |-> "pw-" \o id,
           role |-> IF id = "u1" \/ second THEN "admin" ELSE "user"]] :
        second \in BOOLEAN }

\* the importer is not running
ImporterIdle ==
    /\ csvFile = NoFile
    /\ pc = "start"
    /\ run = 1
    /\ rows = <<>>
    /\ uniqueEvents = <<>>
    /\ finalEvents = <<>>
    /\ eventIndex = 0
    /\ successCount = 0
    /\ errorCount = 0
    /\ deptCounts = <<>>
    /\ console = <<>>
    /\ faults = 0
    /\ parseCalls = 0
    /\ rejected = <<>>
    /\ startEvents = EmptyCollection
    /\ history = <<>>

InitAdmin ==
    /\ ImporterIdle
    /\ Events = EmptyCollection
    /\ Users \in InitialUsers
    /\ Registrations = {[id |-> "r1", event |-> S_RoboRace, amount |-> 100]}
    /\ Payments = {[id |-> "p1", status |-> "captured", amount |-> 100, recent |-> TRUE]}
    /\ Notifications = {[id |-> "n1"]}
    /\ Settings = <<>>
    /\ res = NoResponse
    /\ indexes \in EventIndexes
    /\ mail = <<>>
    /\ scheduledTime = "unset"
    /\ toggled = "never"
    /\ timerWrote = FALSE

NextAdmin ==
    \/ GetDashboard
    \/ GetUsers
    \/ PutUserRole
    \/ PostClearDatabase
    \/ PostSeedSavishkarEvents

SpecAdmin == InitAdmin /\ [][NextAdmin]_vars

(***************************************************************************)
(* The server with the settings routes                                     *)

\* registrationAutoDisable, when the scheduled time comes: the registration
\* is switched off in the settings store.  The schedule is kept, so the model
\* lets the timer come again after an admin has switched the registration on.
AutoDisableFires ==
    /\ scheduledTime # "unset"
    /\ Settings_get(Settings, RegistrationKey, JsString("false")) # JsString("true")
    /\ Settings' = Settings_set(Settings, RegistrationKey, JsString("true"),
                      [category |-> "general", isPublic |-> FALSE,
                       updatedBy |-> "registrationAutoDisable"])
    /\ timerWrote' = TRUE
    /\ UNCHANGED <<Users, Events, Registrations, Payments, Notifications, res,
                   scheduledTime, toggled>>
    /\ UNCHANGED <<csvFile, pc, run, locals, console, faults, startEvents, history,
                   indexes, mail>>

(***************************************************************************)

InitSettings ==
    /\ ImporterIdle
    /\ Events = EmptyCollection
    /\ Users \in InitialUsers
    /\ Registrations = {}
    /\ Payments = {}
    /\ Notifications = {}
    /\ Settings = <<>>
    /\ res = NoResponse
    /\ indexes = {"name"}
    /\ mail = <<>>
    /\ scheduledTime = "unset"
    /\ toggled = "never"
    /\ timerWrote = FALSE

NextSettings ==
    \/ GetSettings
    \/ GetSettingByKey
    \/ PutSetting
    \/ PostSetting
    \/ DeleteSetting
    \/ GetRegistrationControl
    \/ PutRegistrationControl
    \/ GetRegistrationAutoDisable
    \/ PutRegistrationAutoDisable
    \/ AutoDisableFires

SpecSettings == InitSettings /\ [][NextSettings]_vars

(***************************************************************************)
(* The whole admin router, on a database that was just cleared             *)
(***************************************************************************)

InitRouter ==
    /\ ImporterIdle
    /\ Events = EmptyCollection
    /\ Users = [id \in UserIds |->
                  [name |-> id, password |-> "pw-" \o id,
                   role |-> IF id = "u1" THEN "admin" ELSE "user"]]
    /\ Registrations = {}
    /\ Payments = {}
    /\ Notifications = {}
    /\ Settings = <<>>
    /\ res = NoResponse
    /\ indexes = {"name"}
    /\ mail = <<>>
    /\ scheduledTime = "unset"
    /\ toggled = "never"
    /\ timerWrote = FALSE

\* a request leaves the importer, the indexes and the mail alone
ImporterStays ==
    UNCHANGED <<csvFile, pc, run, locals, console, faults, startEvents, history,
                indexes, mail>>

\* one request on each of the routes of the router, each with one body
request(caller) ==
    \/ dashboard(caller) /\ ImporterStays
    \/ users(caller, "user") /\ ImporterStays
    \/ userRole(caller, "u2", "admin") /\ ImporterStays
    \/ clearDatabase(caller) /\ ImporterStays
    \/ settings(caller) /\ ImporterStays
    \/ settingByKey(caller, RegistrationKey) /\ ImporterStays
    \/ putSetting(caller, RegistrationKey, JsString("true")) /\ ImporterStays
    \/ postSetting(caller, RegistrationKey, JsString("true")) /\ ImporterStays
    \/ deleteSetting(caller, RegistrationKey) /\ ImporterStays
    \/ registrationControl(caller) /\ ImporterStays
    \/ putRegistrationControl(caller, JsBoolean(TRUE)) /\ ImporterStays
    \/ registrationAutoDisable(caller) /\ ImporterStays
    \/ putRegistrationAutoDisable(caller, "2025-11-01T18:00") /\ ImporterStays
    \/ seedSavishkarEvents(caller) /\ ImporterStays

NextRouter == \E caller \in Callers : request(caller)

SpecRouter == InitRouter /\ [][NextRouter]_vars

(***************************************************************************)
(* Properties of the admin routes                                          *)
(***************************************************************************)

Departments == {AIML, CSE, ECE, Mech, Civil, MBA, <<"A","p","p","l","i","e","d"," ","S","c","i","e","n","c","e">>, Common}

Categories == {Technical, NonTechnical, Cultural}

WellFormedTeamSize(teamSize) == 1 <= teamSize.min /\ teamSize.min <= teamSize.max

C25_SeededCategoryAndTeamSize ==
    \A n \in DOMAIN Events :
        /\ Events[n].department \in Departments \cup {Seed_department}
        /\ Events[n].category \in Categories
        /\ WellFormedTeamSize(Events[n].teamSize)

\* the step is a clear-database request of an admin
ClearRequested == res'.route = "POST /clear-database" /\ IsAdmin(res'.caller)

ClearSucceeded == ClearRequested /\ res'.status = 200

\* the users of a collection that have the role admin
adminsOf(coll) == {id \in DOMAIN coll : coll[id].role = "admin"}

\* C27: after a clear-database that succeeded, the notification, payment,
\* registration and event collections are empty, no user with another role
\* than admin is left, every user that was an admin before is still there
\* unchanged, and remainingAdmins is the number of admins in the store
C27_ClearLeavesOnlyAdmins ==
    [][ClearSucceeded =>
           /\ Notifications' = {} /\ Payments' = {} /\ Registrations' = {}
           /\ DOMAIN Events' = {}
           /\ \A id \in DOMAIN Users' : Users'[id].role = "admin"
           /\ \A id \in adminsOf(Users) : id \in DOMAIN Users' /\ Users'[id] = Users[id]
           /\ res'.body.remainingAdmins = Cardinality(adminsOf(Users'))]_vars

\* a clear-database went through, removed a user and kept the admin
C27_Witness ==
    /\ res.route = "POST /clear-database"
    /\ res.status = 200
    /\ res.body.deletedCounts.users = 1
    /\ res.body.deletedCounts.events > 0
    /\ res.body.remainingAdmins = 1
    /\ DOMAIN Users = {"u1"}

\* C28: after any sequence of role updates and clear-database requests by
\* admins, at least one user with the role admin exists
C28_AnAdminAlwaysExists == adminsOf(Users) # {}

\* clear-database on its own never removes the last admin: a step of it keeps
\* every admin there was
C28_ClearKeepsAdmins ==
    [][ClearRequested => adminsOf(Users) \subseteq adminsOf(Users')]_vars

\* the step is the auto-disable service writing the registration key
TimerStep ==
    /\ RegistrationKey \in DOMAIN Settings'
    /\ Settings'[RegistrationKey].updatedBy = "registrationAutoDisable"
    /\ \/ RegistrationKey \notin DOMAIN Settings
       \/ Settings[RegistrationKey] # Settings'[RegistrationKey]

\* the step is an admin's request on a route
RouteStep(route) == res'.route = route /\ IsAdmin(res'.caller) /\ ~TimerStep

\* the step is a GET /registration-control that was answered with success
ToggleRead == RouteStep("GET /registration-control") /\ res'.status = 200

\* the step is a PUT /registration-control that was refused with 400
ToggleRefused == RouteStep("PUT /registration-control") /\ res'.status = 400

\* C29: after a PUT /registration-control with a boolean b that succeeded,
\* every GET /registration-control returns userRegistrationDisabled = b until
\* a route next writes or deletes the key; while the key was never set the
\* GET returns false; and a PUT whose disabled is not a boolean is answered
\* with 400 and leaves the stored settings as they were
C29_ToggleRoundTrip ==
    [][/\ ToggleRead /\ toggled \in {"true", "false"} =>
             res'.body.userRegistrationDisabled = (toggled = "true")
       /\ ToggleRead /\ toggled = "never" =>
             res'.body.userRegistrationDisabled = FALSE
       /\ ToggleRefused => Settings' = Settings]_vars

\* C29, with the auto-disable service counted among the writers of the key:
\* the GET returns b until a route or the service next writes or deletes the
\* key, and false while neither has ever set it
C29_ToggleRoundTripUntilAnyWrite ==
    [][/\ ToggleRead /\ toggled \in {"true", "false"} /\ ~timerWrote =>
             res'.body.userRegistrationDisabled = (toggled = "true")
       /\ ToggleRead /\ toggled = "never" /\ ~timerWrote =>
             res'.body.userRegistrationDisabled = FALSE
       /\ ToggleRefused => Settings' = Settings]_vars

\* the registration was switched off by a PUT, nothing has written the key
\* since, and the GET that followed reported it as off
C29_Witness ==
    /\ res.route = "GET /registration-control"
    /\ res.status = 200
    /\ res.body.userRegistrationDisabled = TRUE
    /\ toggled = "true"
    /\ ~timerWrote
    /\ RegistrationKey \in DOMAIN Settings
    /\ Settings[RegistrationKey].updatedBy \in UserIds

\* the step serves a request of a caller who is not logged in or whose role
\* is not admin
NonAdminRequest == res'.caller \in Callers /\ ~IsAdmin(res'.caller)

\* C30: every route of the admin router stands behind protect and
\* authorize('admin'): a request of a caller who is not logged in or is not an
\* admin changes none of the users, events, registrations, payments,
\* notifications and settings, nor the schedule, and is answered with 401 or
\* 403 and a body that carries nothing of them; so two runs that differ only
\* in such requests have the same stores
C30_NonAdminRequestsChangeNothing ==
    [][NonAdminRequest =>
           /\ UNCHANGED <<Users, Events, Registrations, Payments, Notifications,
                          Settings, scheduledTime>>
           /\ res'.status = IF protect(res'.caller) THEN 403 ELSE 401
           /\ DOMAIN res'.body = {"success", "message"}
           /\ res'.body.success = FALSE]_vars

\* a user who is not an admin asked for the list of the users of a database
\* that holds events and settings, and was answered with 403
C30_Witness ==
    /\ res.route = "GET /users"
    /\ res.caller = "u2"
    /\ res.status = 403
    /\ "u2" \in DOMAIN Users /\ Users["u2"].role = "user"
    /\ DOMAIN Events # {}
    /\ DOMAIN Settings # {}

(***************************************************************************)
(* The admin registration and its emails (server/routes/registrations.js,  *)
(* as the deployment notes give it): the user and the registration are     *)
(* written, each email is handed to sendEmail with a .then and a .catch,   *)
(* and the response is sent in the same turn.  An email is settled in a    *)
(* later turn, or never.                                                   *)
(***************************************************************************)

Participants == {"p1", "p2"}

\* the emails of one admin registration
EmailKinds == {"welcome", "confirmation"}

emailsOf(p) == {<<p, kind>> : kind \in EmailKinds}

\* the database operations of the registration of p
registered(p) ==
    /\ Users' = [id \in (DOMAIN Users) \cup {p} |->
                    IF id = p
                    THEN [name |-> p, password |-> "pw-" \o p, role |-> "user"]
                    ELSE Users[id]]
    /\ Registrations' = Registrations \cup
                           {[id |-> "r-" \o p, event |-> S_RoboRace, amount |-> 0]}

\* sendEmail({ ... }).then(...).catch(...), once for each email of p
handedToSendEmail(p) ==
    mail' = [e \in (DOMAIN mail) \cup emailsOf(p) |->
                IF e \in DOMAIN mail THEN mail[e] ELSE "pending"]

\* await sendEmail({ ... }) before res.json: the turn ends with the emails
\* handed over and no response
AdminRegister_awaitsEmail(p) ==
    /\ p \notin DOMAIN Users
    /\ registered(p)
    /\ handedToSendEmail(p)
    /\ UNCHANGED res
    /\ UNCHANGED <<Events, Payments, Notifications, Settings, indexes, scheduledTime,
                   toggled, timerWrote>>
    /\ UNCHANGED <<csvFile, pc, run, locals, console, faults, startEvents, history>>

\* POST /api/registrations/admin-register: the database operations, the
\* emails handed over, res.json({ success: true }); or the database refuses
\* and nothing is written or sent
AdminRegister(p) ==
    /\ p \notin DOMAIN Users
    /\ \/ /\ registered(p)
          /\ handedToSendEmail(p)
          /\ Respond("POST /registrations/admin-register", p, 200, [success |-> TRUE])
       \/ /\ Respond("POST /registrations/admin-register", p, 500,
                Failure("database error"))
          /\ UNCHANGED <<Users, Registrations, mail>>
    /\ UNCHANGED <<Events, Payments, Notifications, Settings, indexes, scheduledTime,
                   toggled, timerWrote>>
    /\ UNCHANGED <<csvFile, pc, run, locals, console, faults, startEvents, history>>

AdminRegisters == \E p \in Participants : AdminRegister(p)

\* what settling an email leaves alone
OnlyMailAndConsole ==
    /\ UNCHANGED <<Users, Events, Registrations, Payments, Notifications, Settings, res,
                   indexes, scheduledTime, toggled, timerWrote>>
    /\ UNCHANGED <<csvFile, pc, run, locals, faults, startEvents, history>>

\* .then(() => console.log('Email sent'))
EmailSent ==
    \E e \in DOMAIN mail :
        /\ mail[e] = "pending"
        /\ mail' = [mail EXCEPT ![e] = "sent"]
        /\ console' = Append(console, [kind |-> "Email sent", count |-> 1])
        /\ OnlyMailAndConsole

\* .catch(error => console.error('Email error'))
EmailFails ==
    \E e \in DOMAIN mail :
        /\ mail[e] = "pending"
        /\ mail' = [mail EXCEPT ![e] = "failed"]
        /\ console' = Append(console, [kind |-> "Email error", count |-> 1])
        /\ OnlyMailAndConsole

InitMail ==
    /\ ImporterIdle
    /\ Events = EmptyCollection
    /\ ServerIdle

NextMail == AdminRegisters \/ EmailSent \/ EmailFails

SpecMail == InitMail /\ [][NextMail]_vars

\* the step hands the emails of p to sendEmail
HandsOver(p) == emailsOf(p) \cap DOMAIN mail = {} /\ emailsOf(p) \subseteq DOMAIN mail'

\* the step settles an email
Settles(state) ==
    \E e \in DOMAIN mail : mail[e] = "pending" /\ e \in DOMAIN mail' /\ mail'[e] = state

\* C22: the response of the admin registration is sent in the turn that
\* hands the emails to sendEmail, while every one of them is still pending,
\* so it is there even if an email is never settled; and an email that is
\* sent or fails, whenever it does, changes neither the response nor the user
\* and the registration that were created
C22_ResponseDoesNotWaitForEmail ==
    [][/\ \A p \in Participants :
             HandsOver(p) =>
                /\ res'.route = "POST /registrations/admin-register"
                /\ res'.caller = p
                /\ res'.status = 200
                /\ \A e \in emailsOf(p) : mail'[e] = "pending"
                /\ p \in DOMAIN Users'
       /\ Settles("sent") \/ Settles("failed") =>
             UNCHANGED <<res, Users, Registrations>>]_vars

\* p1 was registered and answered with success; one of the emails failed
\* and the other is still pending
C22_Witness ==
    /\ res.route = "POST /registrations/admin-register"
    /\ res.caller = "p1"
    /\ res.status = 200
    /\ "p1" \in DOMAIN Users
    /\ \E r \in Registrations : r.id = "r-p1"
    /\ <<"p1", "welcome">> \in DOMAIN mail
    /\ mail[<<"p1", "welcome">>] = "failed"
    /\ mail[<<"p1", "confirmation">>] = "pending"
====
